---- MODULE Spec2Model ----
(***************************************************************************)
(* clox: the bytecode virtual machine (vm.c), its heap with the            *)
(* mark-sweep collector (memory.c), string interning (object.c) and the    *)
(* open-addressed hash table (table.c).                                    *)
(*                                                                         *)
(* The machine state is the C global `VM vm` plus the heap it points       *)
(* into.  One action per opcode handler of run(); a handler that calls     *)
(* reallocate() with a growing request is cut at that call, because        *)
(* reallocate() may run collectGarbage() there; the collector itself is    *)
(* four steps (markRoots, traceReferences, tableRemoveWhite, sweep).       *)
(*                                                                         *)
(* The front end is modelled apart from the machine: the scanner           *)
(* (scanner.c) as operators on the source text, and the parser of          *)
(* compiler.c as one action per parsing function over the stack of calls   *)
(* in progress (SpecScan, SpecCompile, FairCompile).                       *)
(***************************************************************************)
EXTENDS Integers, Sequences, FiniteSets, TLC

(***************************************************************************)
(* Bounds of the model.                                                    *)
(***************************************************************************)
\* collections one interpret() call may run
MaxCollections == 2
\* indeterminate mark bytes that read as "marked" in one collection
MaxStaleMarks == 1
\* the largest value clock() returns
MaxClock == 7

\* the longest source text given to the scanner on its own, in bytes
MaxSource == 4
\* the longest source given to compile() word by word, in words
MaxWords == 2

(***************************************************************************)
(* Values (value.h): nil, boolean, number, object reference.               *)
(***************************************************************************)
NULL == 0

NIL_VAL == [t |-> "nil", v |-> 0]
BOOL_VAL(b) == [t |-> "bool", v |-> IF b THEN 1 ELSE 0]
NUMBER_VAL(n) == [t |-> "num", v |-> n]
OBJ_VAL(o) == [t |-> "obj", v |-> o]

IS_NIL(x) == x.t = "nil"
IS_BOOL(x) == x.t = "bool"
IS_NUMBER(x) == x.t = "num"
IS_OBJ(x) == x.t = "obj"
AS_BOOL(x) == x.v = 1
AS_NUMBER(x) == x.v
AS_OBJ(x) == x.v

\* value.c: same variant and same contents; objects by reference
valuesEqual(a, b) == a.t = b.t /\ a.v = b.v

\* vm.c isFalsey
isFalsey(value) == IS_NIL(value) \/ (IS_BOOL(value) /\ ~AS_BOOL(value))

(***************************************************************************)
(* Opcodes, in the order of the enum in chunk.h.                           *)
(***************************************************************************)
OP_CONSTANT == 0
OP_NIL == 1
OP_TRUE == 2
OP_FALSE == 3
OP_POP == 4
OP_NOT == 5
OP_NEGATE == 6
OP_PRINT == 7
OP_JUMP == 8
OP_JUMP_IF_FALSE == 9
OP_LOOP == 10
OP_CALL == 11
OP_INVOKE == 12
OP_SUPER_INVOKE == 13
OP_CLOSURE == 14
OP_CLOSE_UPVALUE == 15
OP_RETURN == 16
OP_GREATER == 17
OP_LESS == 18
OP_DEFINE_GLOBAL == 19
OP_GET_LOCAL == 20
OP_GET_GLOBAL == 21
OP_SET_LOCAL == 22
OP_SET_GLOBAL == 23
OP_GET_UPVALUE == 24
OP_SET_UPVALUE == 25
OP_GET_PROPERTY == 26
OP_SET_PROPERTY == 27
OP_GET_SUPER == 28
OP_EQUAL == 29
OP_ADD == 30
OP_SUBTRACT == 31
OP_MULTIPLY == 32
OP_DIVIDE == 33
OP_CLASS == 34
OP_INHERIT == 35
OP_METHOD == 36

FRAMES_MAX == 64

(***************************************************************************)
(* hashString (object.c): FNV-1a over the bytes, in 32 bits.  A hash is    *)
(* kept as its two 16-bit halves so that no intermediate product leaves    *)
(* the integers the model checker computes with; the arithmetic is that   *)
(* of uint32_t: hash ^= byte; hash *= 16777619 (0x0100 0193).              *)
(***************************************************************************)
RECURSIVE XorBits(_, _, _)
XorBits(a, b, n) ==
  IF n = 0 THEN 0
  ELSE (((a % 2) + (b % 2)) % 2) + 2 * XorBits(a \div 2, b \div 2, n - 1)

\* x, bound to the name that F takes
With(x, F(_)) == F(x)

\* y, evaluated after the record x
After(x, y) == IF DOMAIN x # {} THEN y ELSE x

\* hash *= 16777619, on the halves
HashMul(hi, lo) ==
  [hi |-> ((hi * 403) + (lo * 256) + ((lo * 403) \div 65536)) % 65536,
   lo |-> (lo * 403) % 65536]

HashStep(hash, byte) ==
  HashMul(hash.hi, (hash.lo - (hash.lo % 256)) + XorBits((hash.lo % 256), byte, 8))

RECURSIVE HashFrom(_, _, _)
HashFrom(hash, key, i) ==
  IF i > Len(key) THEN hash
  ELSE With(HashStep(hash, key[i]),
            LAMBDA next : After(next, HashFrom(next, key, i + 1)))

hashString(key) == HashFrom([hi |-> 33052, lo |-> 40389], key, 1)

\* hash % capacity, for a capacity that is a power of two up to 65536
HashMod(hash, capacity) == hash.lo % capacity

(***************************************************************************)
(* table.c.  A table is [count, capacity, entries]; an entry is            *)
(* [key, value] with key NULL for an empty bucket (value nil) or a         *)
(* tombstone (value true).  Bucket i of the C array is entries[i + 1].     *)
(* The operators take the heap h to read key->hash.                        *)
(***************************************************************************)
GROW_CAPACITY(capacity) == IF capacity < 8 THEN 8 ELSE capacity * 2

EmptyEntry == [key |-> NULL, value |-> NIL_VAL]
Tombstone == [key |-> NULL, value |-> BOOL_VAL(TRUE)]

initTable == [count |-> 0, capacity |-> 0, entries |-> <<>>]

\* the probe loop of findEntry; the result is the bucket's position in entries
RECURSIVE FindEntryFrom(_, _, _, _, _)
FindEntryFrom(entries, capacity, key, index, tombstone) ==
  LET entry == entries[index + 1] IN
  IF entry.key = NULL
  THEN IF IS_NIL(entry.value)
       THEN (IF tombstone # 0 THEN tombstone ELSE index + 1)
       ELSE FindEntryFrom(entries, capacity, key, (index + 1) % capacity,
                          IF tombstone = 0 THEN index + 1 ELSE tombstone)
  ELSE IF entry.key = key
       THEN index + 1
       ELSE FindEntryFrom(entries, capacity, key, (index + 1) % capacity, tombstone)

findEntry(h, entries, capacity, key) ==
  FindEntryFrom(entries, capacity, key, HashMod(h[key].hash, capacity), 0)

tableGet(h, table, key) ==
  IF table.count = 0 THEN [found |-> FALSE, value |-> NIL_VAL]
  ELSE With(table.entries[findEntry(h, table.entries, table.capacity, key)],
            LAMBDA entry :
              IF entry.key = NULL THEN [found |-> FALSE, value |-> NIL_VAL]
              ELSE [found |-> TRUE, value |-> entry.value])

\* the re-insertion loop of adjustCapacity: old buckets i.. into the new array
RECURSIVE RehashFrom(_, _, _, _, _)
RehashFrom(h, old, i, entries, count) ==
  IF i > Len(old)
  THEN [count |-> count, capacity |-> Len(entries), entries |-> entries]
  ELSE IF old[i].key = NULL THEN RehashFrom(h, old, i + 1, entries, count)
  ELSE RehashFrom(h, old, i + 1,
                  [entries EXCEPT
                     ![findEntry(h, entries, Len(entries), old[i].key)] = old[i]],
                  count + 1)

adjustCapacity(h, table, capacity) ==
  RehashFrom(h, table.entries, 1, [i \in 1..capacity |-> EmptyEntry], 0)

\* table->count + 1 > table->capacity * TABLE_MAX_LOAD (0.75)
NeedsGrow(table) == 4 * (table.count + 1) > 3 * table.capacity

\* tableSet that counts every new key, the one put on a tombstone too
SetEntry_counting(t, pos, key, value) ==
  [table |-> [t EXCEPT
                !.count = IF t.entries[pos].key = NULL THEN @ + 1 ELSE @,
                !.entries[pos] = [key |-> key, value |-> value]],
   isNewKey |-> t.entries[pos].key = NULL]

\* tableSet once the table t has room: the bucket found is at position pos
SetEntry(t, pos, key, value) ==
  [table |-> [t EXCEPT
                !.count = IF t.entries[pos].key = NULL /\ IS_NIL(t.entries[pos].value)
                          THEN @ + 1 ELSE @,
                !.entries[pos] = [key |-> key, value |-> value]],
   isNewKey |-> t.entries[pos].key = NULL]

tableSet(h, table, key, value) ==
  With(IF NeedsGrow(table)
       THEN adjustCapacity(h, table, GROW_CAPACITY(table.capacity))
       ELSE table,
       LAMBDA t : SetEntry(t, findEntry(h, t.entries, t.capacity, key), key, value))

\* tableDelete that empties the bucket instead of leaving a tombstone
tableDelete_noTombstone(h, table, key) ==
  IF table.count = 0 THEN table
  ELSE With(findEntry(h, table.entries, table.capacity, key),
            LAMBDA pos : IF table.entries[pos].key = NULL THEN table
                         ELSE [table EXCEPT !.entries[pos] = EmptyEntry])

tableDelete(h, table, key) ==
  IF table.count = 0 THEN table
  ELSE With(findEntry(h, table.entries, table.capacity, key),
            LAMBDA pos : IF table.entries[pos].key = NULL THEN table
                         ELSE [table EXCEPT !.entries[pos] = Tombstone])

\* the probe loop of tableFindString
RECURSIVE FindStringFrom(_, _, _, _, _)
FindStringFrom(h, table, chars, hash, index) ==
  LET entry == table.entries[index + 1] IN
  IF entry.key = NULL
  THEN IF IS_NIL(entry.value) THEN NULL
       ELSE FindStringFrom(h, table, chars, hash, (index + 1) % table.capacity)
  ELSE IF /\ h[entry.key].length = Len(chars)
          /\ h[entry.key].hash = hash
          /\ h[entry.key].chars = chars
       THEN entry.key
       ELSE FindStringFrom(h, table, chars, hash, (index + 1) % table.capacity)

tableFindString(h, table, chars, hash) ==
  IF table.count = 0 THEN NULL
  ELSE FindStringFrom(h, table, chars, hash, HashMod(hash, table.capacity))

\* tableRemoveWhite: buckets i.. ; every key whose mark is clear is deleted
RECURSIVE RemoveWhiteFrom(_, _, _)
RemoveWhiteFrom(h, table, i) ==
  IF i > table.capacity THEN table
  ELSE LET entry == table.entries[i] IN
       IF entry.key # NULL /\ ~h[entry.key].isMarked
       THEN RemoveWhiteFrom(h, tableDelete(h, table, entry.key), i + 1)
       ELSE RemoveWhiteFrom(h, table, i + 1)

tableRemoveWhite(h, table) == RemoveWhiteFrom(h, table, 1)

\* the keys a table holds
TableKeys(table) ==
  {table.entries[i].key : i \in 1..table.capacity} \ {NULL}

(***************************************************************************)
(* Heap objects (object.h).  The heap is a sequence of object records; an  *)
(* object reference is its position, 0 is NULL.  Every record has the Obj  *)
(* header fields type and isMarked (the field `next` is the sequence       *)
(* vm.objects, head first).  `freed` records that the block was handed to  *)
(* free(); a freed block keeps its last contents.  allocateObject() does   *)
(* not write isMarked, and free() lets the allocator overwrite the header, *)
(* so the mark byte of a new or a freed block is indeterminate until the   *)
(* collector writes it: `markKnown` is false for such a block, and the     *)
(* value its isMarked byte then has is chosen when a collection starts.    *)
(***************************************************************************)
ObjString(chars, hash) ==
  [type |-> "OBJ_STRING", isMarked |-> FALSE, markKnown |-> FALSE, freed |-> FALSE,
   length |-> Len(chars), chars |-> chars, hash |-> hash]

ObjFunction ==
  [type |-> "OBJ_FUNCTION", isMarked |-> FALSE, markKnown |-> FALSE, freed |-> FALSE,
   arity |-> 0, upvalueCount |-> 0, code |-> <<>>, constants |-> <<>>,
   name |-> NULL]

ObjNative ==
  [type |-> "OBJ_NATIVE", isMarked |-> FALSE, markKnown |-> FALSE, freed |-> FALSE]

ObjClosure(function, upvalueCount) ==
  [type |-> "OBJ_CLOSURE", isMarked |-> FALSE, markKnown |-> FALSE, freed |-> FALSE,
   function |-> function, upvalues |-> [i \in 1..upvalueCount |-> NULL],
   upvalueCount |-> upvalueCount]

\* location is the stack slot the upvalue points at, or CLOSED for &closed
CLOSED == -1

ObjUpvalue(slot) ==
  [type |-> "OBJ_UPVALUE", isMarked |-> FALSE, markKnown |-> FALSE, freed |-> FALSE,
   location |-> slot, closed |-> NIL_VAL]

ObjClass(name) ==
  [type |-> "OBJ_CLASS", isMarked |-> FALSE, markKnown |-> FALSE, freed |-> FALSE,
   name |-> name, methods |-> initTable]

ObjInstance(klass) ==
  [type |-> "OBJ_INSTANCE", isMarked |-> FALSE, markKnown |-> FALSE, freed |-> FALSE,
   klass |-> klass, fields |-> initTable]

ObjBoundMethod(receiver, method) ==
  [type |-> "OBJ_BOUND_METHOD", isMarked |-> FALSE, markKnown |-> FALSE, freed |-> FALSE,
   receiver |-> receiver, method |-> method]

isObjType(h, value, type) == IS_OBJ(value) /\ h[AS_OBJ(value)].type = type
IS_STRING(h, value) == isObjType(h, value, "OBJ_STRING")
IS_INSTANCE(h, value) == isObjType(h, value, "OBJ_INSTANCE")
IS_CLASS(h, value) == isObjType(h, value, "OBJ_CLASS")

(***************************************************************************)
(* The machine: v is the record of the fields of `VM vm` (vm.h).           *)
(* v.stack holds every slot written so far, so the slots at and above      *)
(* v.stackTop keep their old values as the C array does; v.stackTop is     *)
(* the number of slots in use; v.frames[i].slots and an open upvalue's     *)
(* location count slots from 0 as the C pointers do.                       *)
(***************************************************************************)
initVM_fields ==
  [stack |-> <<>>, stackTop |-> 0, frames |-> <<>>,
   globals |-> initTable, strings |-> initTable, initString |-> NULL,
   openUpvalues |-> <<>>, objects |-> <<>>, grayStack |-> <<>>]

\* resetStack() without `vm.frameCount = 0`
resetStack_keepFrames(v) == [v EXCEPT !.stackTop = 0, !.openUpvalues = <<>>]

resetStack(v) ==
  [v EXCEPT !.stackTop = 0, !.frames = <<>>, !.openUpvalues = <<>>]

StoreSlot(stack, slot, value) ==
  IF slot < Len(stack) THEN [stack EXCEPT ![slot + 1] = value]
  ELSE Append(stack, value)

push(v, value) ==
  [v EXCEPT !.stack = StoreSlot(@, v.stackTop, value), !.stackTop = @ + 1]

\* pop() is the pair: the value read, PopValue, and the machine after it, pop
PopValue(v) == v.stack[v.stackTop]
pop(v) == [v EXCEPT !.stackTop = @ - 1]
popN(v, n) == [v EXCEPT !.stackTop = @ - n]

peek(v, distance) == v.stack[v.stackTop - distance]

\* allocateObject: the new object becomes the head of vm.objects
allocateObject(v, h, rec) ==
  [v |-> [v EXCEPT !.objects = <<Len(h) + 1>> \o @],
   h |-> Append(h, rec),
   ref |-> Len(h) + 1]

(***************************************************************************)
(* The collector (memory.c).  The marking operators thread the pair        *)
(* st = [h, g]: the heap with its mark bits and the gray stack.            *)
(***************************************************************************)
markObject(st, object) ==
  IF object = NULL THEN st
  ELSE IF st.h[object].isMarked THEN st
  ELSE [h |-> [st.h EXCEPT ![object].isMarked = TRUE],
        g |-> Append(st.g, object)]

markValue(st, value) ==
  IF IS_OBJ(value) THEN markObject(st, AS_OBJ(value)) ELSE st

RECURSIVE MarkArrayFrom(_, _, _)
MarkArrayFrom(st, values, i) ==
  IF i > Len(values) THEN st
  ELSE MarkArrayFrom(markValue(st, values[i]), values, i + 1)

markArray(st, values) == MarkArrayFrom(st, values, 1)

RECURSIVE MarkObjectsFrom(_, _, _)
MarkObjectsFrom(st, refs, i) ==
  IF i > Len(refs) THEN st
  ELSE MarkObjectsFrom(markObject(st, refs[i]), refs, i + 1)

RECURSIVE MarkTableFrom(_, _, _)
MarkTableFrom(st, table, i) ==
  IF i > table.capacity THEN st
  ELSE MarkTableFrom(
         markValue(markObject(st, table.entries[i].key), table.entries[i].value),
         table, i + 1)

markTable(st, table) == MarkTableFrom(st, table, 1)

\* the switch of blackenObject: no case for a class, an instance or a bound
\* method, so nothing is marked through them
blackenObject(st, object) ==
  LET o == st.h[object] IN
  CASE o.type = "OBJ_CLOSURE" ->
         MarkObjectsFrom(markObject(st, o.function), o.upvalues, 1)
    [] o.type = "OBJ_FUNCTION" ->
         markArray(markObject(st, o.name), o.constants)
    [] o.type = "OBJ_UPVALUE" -> markValue(st, o.closed)
    [] OTHER -> st

RECURSIVE traceReferences(_)
traceReferences(st) ==
  IF Len(st.g) = 0 THEN st
  ELSE traceReferences(
         blackenObject([st EXCEPT !.g = SubSeq(@, 1, Len(@) - 1)],
                       st.g[Len(st.g)]))

\* markCompilerRoots: the functions of the chain of compilers under way
markCompilerRoots(st, compilers) == MarkObjectsFrom(st, compilers, 1)

markRoots(v, h, compilers) ==
  LET s0 == [h |-> h, g |-> v.grayStack]
      s1 == markArray(s0, SubSeq(v.stack, 1, v.stackTop))
      s2 == MarkObjectsFrom(s1, [i \in 1..Len(v.frames) |-> v.frames[i].closure], 1)
      s3 == MarkObjectsFrom(s2, v.openUpvalues, 1)
      s4 == markTable(s3, v.globals)
  IN  markCompilerRoots(s4, compilers)

\* the switch of freeObject: the block is released for the five variants
\* that have a case, and left alone for the others
freeObject(h, object) ==
  IF h[object].type \in {"OBJ_CLOSURE", "OBJ_STRING", "OBJ_FUNCTION",
                         "OBJ_NATIVE", "OBJ_UPVALUE"}
  THEN [h EXCEPT ![object].freed = TRUE]
  ELSE h

\* sweep: objects still to visit from position i of the list, the list kept
\* so far, the heap
RECURSIVE SweepFrom(_, _, _, _)
SweepFrom(h, objs, i, kept) ==
  IF i > Len(objs) THEN [h |-> h, objects |-> kept]
  ELSE IF h[objs[i]].isMarked
       THEN SweepFrom([h EXCEPT ![objs[i]].isMarked = FALSE], objs, i + 1,
                      Append(kept, objs[i]))
       ELSE SweepFrom(freeObject(h, objs[i]), objs, i + 1, kept)

sweep(h, objs) == SweepFrom(h, objs, 1, <<>>)


(***************************************************************************)
(* Strings (object.c).  allocateString and copyString are given here as    *)
(* the code runs them when reallocate() does not collect; the run-time     *)
(* path through takeString is cut at its allocations further down.         *)
(***************************************************************************)
allocateString(v, h, chars, hash) ==
  With(allocateObject(v, h, ObjString(chars, hash)), LAMBDA a :
    [v |-> [a.v EXCEPT !.strings = tableSet(a.h, @, a.ref, NIL_VAL).table],
     h |-> a.h, ref |-> a.ref])

copyString(v, h, chars) ==
  With(tableFindString(h, v.strings, chars, hashString(chars)), LAMBDA interned :
    IF interned # NULL THEN [v |-> v, h |-> h, ref |-> interned]
    ELSE allocateString(v, h, chars, hashString(chars)))

(***************************************************************************)
(* initVM (vm.c) and the image compile() leaves on the heap.  A program    *)
(* is the sequence of its compiled functions, the script first; a          *)
(* constant is a number, a string or a function of the program.  The       *)
(* bytes and constant tables are those compiler.c emits for the source     *)
(* text quoted above each program.                                         *)
(***************************************************************************)
Chars_init == <<105, 110, 105, 116>>
Chars_clock == <<99, 108, 111, 99, 107>>

defineNative(v, h, name) ==
  With(copyString(v, h, name), LAMBDA s :
  With(allocateObject(push(s.v, OBJ_VAL(s.ref)), s.h, ObjNative), LAMBDA n :
  With(push(n.v, OBJ_VAL(n.ref)), LAMBDA v2 :
    [v |-> pop(pop([v2 EXCEPT !.globals =
                      tableSet(n.h, @, AS_OBJ(v2.stack[1]), v2.stack[2]).table])),
     h |-> n.h])))

initVM ==
  With(copyString(resetStack(initVM_fields), <<>>, Chars_init), LAMBDA s :
    defineNative([s.v EXCEPT !.initString = s.ref], s.h, Chars_clock))

RECURSIVE LoadFunction(_, _, _)
RECURSIVE LoadConstants(_, _, _, _, _)

\* the constants of function f from position i on; values is the table so far
LoadConstants(st, fns, f, i, values) ==
  IF i > Len(fns[f].consts) THEN [v |-> st.v, h |-> st.h, values |-> values]
  ELSE CASE fns[f].consts[i].k = "num" ->
              LoadConstants(st, fns, f, i + 1,
                            Append(values, NUMBER_VAL(fns[f].consts[i].n)))
         [] fns[f].consts[i].k = "str" ->
              With(copyString(st.v, st.h, fns[f].consts[i].s), LAMBDA s :
                After(s, LoadConstants(s, fns, f, i + 1,
                                       Append(values, OBJ_VAL(s.ref)))))
         [] fns[f].consts[i].k = "fn" ->
              With(LoadFunction(st, fns, fns[f].consts[i].n), LAMBDA g :
                After(g, LoadConstants(g, fns, f, i + 1,
                                       Append(values, OBJ_VAL(g.ref)))))

\* initCompiler's newFunction and name, the body, endCompiler
LoadFunction(st, fns, f) ==
  With(allocateObject(st.v, st.h, ObjFunction), LAMBDA a :
  With(IF fns[f].name = <<>> THEN [v |-> a.v, h |-> a.h, ref |-> NULL]
       ELSE copyString(a.v, a.h, fns[f].name), LAMBDA nm :
  With(LoadConstants(nm, fns, f, 1, <<>>), LAMBDA cs :
    [v |-> cs.v,
     h |-> [cs.h EXCEPT ![a.ref] =
              [@ EXCEPT !.arity = fns[f].arity,
                        !.upvalueCount = fns[f].upvalueCount,
                        !.code = fns[f].code,
                        !.constants = cs.values,
                        !.name = nm.ref]],
     ref |-> a.ref])))

compile(st, fns) == LoadFunction(st, fns, 1)

\* fun f() { var a = 1; var b = 2; var c = 3; fun g() { return c; } fun h() { a = a + 1; return a; } fun k() { return b + a; } h(); return k; } var k = f(); print k(); { var x = 5; fun m() { return x; } print m(); }
Program_Closures ==
  <<
  [name |-> <<>>, arity |-> 0, upvalueCount |-> 0,
   code |-> <<14, 1, 19, 0, 21, 3, 11, 0, 19, 2, 21, 4, 11, 0, 7, 0, 5, 14, 6, 1, 1, 20, 2, 11, 0, 7, 4, 15, 1, 16>>,
   consts |-> <<
         [k |-> "str", s |-> <<102>>, n |-> 0],
         [k |-> "fn", s |-> <<>>, n |-> 2],
         [k |-> "str", s |-> <<107>>, n |-> 0],
         [k |-> "str", s |-> <<102>>, n |-> 0],
         [k |-> "str", s |-> <<107>>, n |-> 0],
         [k |-> "num", s |-> <<>>, n |-> 5],
         [k |-> "fn", s |-> <<>>, n |-> 6]>>],
  [name |-> <<102>>, arity |-> 0, upvalueCount |-> 0,
   code |-> <<0, 0, 0, 1, 0, 2, 14, 3, 1, 3, 14, 4, 1, 1, 14, 5, 1, 2, 1, 1, 20, 5, 11, 0, 4, 20, 6, 16, 1, 16>>,
   consts |-> <<
         [k |-> "num", s |-> <<>>, n |-> 1],
         [k |-> "num", s |-> <<>>, n |-> 2],
         [k |-> "num", s |-> <<>>, n |-> 3],
         [k |-> "fn", s |-> <<>>, n |-> 3],
         [k |-> "fn", s |-> <<>>, n |-> 4],
         [k |-> "fn", s |-> <<>>, n |-> 5]>>],
  [name |-> <<103>>, arity |-> 0, upvalueCount |-> 1,
   code |-> <<24, 0, 16, 1, 16>>,
   consts |-> <<>>],
  [name |-> <<104>>, arity |-> 0, upvalueCount |-> 1,
   code |-> <<24, 0, 0, 0, 30, 25, 0, 4, 24, 0, 16, 1, 16>>,
   consts |-> <<
         [k |-> "num", s |-> <<>>, n |-> 1]>>],
  [name |-> <<107>>, arity |-> 0, upvalueCount |-> 2,
   code |-> <<24, 0, 24, 1, 30, 16, 1, 16>>,
   consts |-> <<>>],
  [name |-> <<109>>, arity |-> 0, upvalueCount |-> 1,
   code |-> <<24, 0, 16, 1, 16>>,
   consts |-> <<>>]
  >>

\* var i = 0; var s = 6; while (i < 2) { i = i + 1; s = s - 1; } { var t = s * 2 / 4; t = -t; print !(t > 1) == true; } if (clock() < 1) print 1; else print false;
Program_Loop ==
  <<
  [name |-> <<>>, arity |-> 0, upvalueCount |-> 0,
   code |-> <<0, 1, 19, 0, 0, 3, 19, 2, 21, 4, 0, 5, 18, 9, 0, 20, 4, 21, 7, 0, 8, 30, 23, 6, 4, 21, 10, 0, 11, 31, 23, 9, 4, 10, 0, 28, 4, 21, 12, 0, 13, 32, 0, 14, 33, 20, 1, 6, 22, 1, 4, 20, 1, 0, 15, 17, 5, 2, 29, 7, 4, 21, 16, 11, 0, 0, 17, 18, 9, 0, 7, 4, 0, 18, 7, 8, 0, 3, 4, 3, 7, 1, 16>>,
   consts |-> <<
         [k |-> "str", s |-> <<105>>, n |-> 0],
         [k |-> "num", s |-> <<>>, n |-> 0],
         [k |-> "str", s |-> <<115>>, n |-> 0],
         [k |-> "num", s |-> <<>>, n |-> 6],
         [k |-> "str", s |-> <<105>>, n |-> 0],
         [k |-> "num", s |-> <<>>, n |-> 2],
         [k |-> "str", s |-> <<105>>, n |-> 0],
         [k |-> "str", s |-> <<105>>, n |-> 0],
         [k |-> "num", s |-> <<>>, n |-> 1],
         [k |-> "str", s |-> <<115>>, n |-> 0],
         [k |-> "str", s |-> <<115>>, n |-> 0],
         [k |-> "num", s |-> <<>>, n |-> 1],
         [k |-> "str", s |-> <<115>>, n |-> 0],
         [k |-> "num", s |-> <<>>, n |-> 2],
         [k |-> "num", s |-> <<>>, n |-> 4],
         [k |-> "num", s |-> <<>>, n |-> 1],
         [k |-> "str", s |-> <<99, 108, 111, 99, 107>>, n |-> 0],
         [k |-> "num", s |-> <<>>, n |-> 1],
         [k |-> "num", s |-> <<>>, n |-> 1]>>]
  >>

\* class Point { init(x) { this.x = x; } get() { return this.x; } } var p = Point(3); print p.get(); var m = p.get; print m(); p.get = m; print p.get();
Program_Classes ==
  <<
  [name |-> <<>>, arity |-> 0, upvalueCount |-> 0,
   code |-> <<34, 0, 19, 0, 21, 1, 14, 3, 36, 2, 14, 5, 36, 4, 4, 21, 7, 0, 8, 11, 1, 19, 6, 21, 9, 12, 10, 0, 7, 21, 12, 26, 13, 19, 11, 21, 14, 11, 0, 7, 21, 15, 21, 17, 27, 16, 4, 21, 18, 12, 19, 0, 7, 1, 16>>,
   consts |-> <<
         [k |-> "str", s |-> <<80, 111, 105, 110, 116>>, n |-> 0],
         [k |-> "str", s |-> <<80, 111, 105, 110, 116>>, n |-> 0],
         [k |-> "str", s |-> <<105, 110, 105, 116>>, n |-> 0],
         [k |-> "fn", s |-> <<>>, n |-> 2],
         [k |-> "str", s |-> <<103, 101, 116>>, n |-> 0],
         [k |-> "fn", s |-> <<>>, n |-> 3],
         [k |-> "str", s |-> <<112>>, n |-> 0],
         [k |-> "str", s |-> <<80, 111, 105, 110, 116>>, n |-> 0],
         [k |-> "num", s |-> <<>>, n |-> 3],
         [k |-> "str", s |-> <<112>>, n |-> 0],
         [k |-> "str", s |-> <<103, 101, 116>>, n |-> 0],
         [k |-> "str", s |-> <<109>>, n |-> 0],
         [k |-> "str", s |-> <<112>>, n |-> 0],
         [k |-> "str", s |-> <<103, 101, 116>>, n |-> 0],
         [k |-> "str", s |-> <<109>>, n |-> 0],
         [k |-> "str", s |-> <<112>>, n |-> 0],
         [k |-> "str", s |-> <<103, 101, 116>>, n |-> 0],
         [k |-> "str", s |-> <<109>>, n |-> 0],
         [k |-> "str", s |-> <<112>>, n |-> 0],
         [k |-> "str", s |-> <<103, 101, 116>>, n |-> 0]>>],
  [name |-> <<105, 110, 105, 116>>, arity |-> 1, upvalueCount |-> 0,
   code |-> <<20, 0, 20, 1, 27, 0, 4, 20, 0, 16>>,
   consts |-> <<
         [k |-> "str", s |-> <<120>>, n |-> 0]>>],
  [name |-> <<103, 101, 116>>, arity |-> 0, upvalueCount |-> 0,
   code |-> <<20, 0, 26, 0, 16, 1, 16>>,
   consts |-> <<
         [k |-> "str", s |-> <<120>>, n |-> 0]>>]
  >>

\* class A { greet() { return "A"; } } class B < A { greet() { return super.greet() + "B"; } get() { var g = super.greet; return g; } } print B().greet(); print B().get();
Program_Super ==
  <<
  [name |-> <<>>, arity |-> 0, upvalueCount |-> 0,
   code |-> <<34, 0, 19, 0, 21, 1, 14, 3, 36, 2, 4, 34, 4, 19, 4, 21, 5, 21, 6, 35, 21, 7, 14, 9, 1, 1, 36, 8, 14, 11, 1, 1, 36, 10, 4, 15, 21, 12, 11, 0, 12, 13, 0, 7, 21, 14, 11, 0, 12, 15, 0, 7, 1, 16>>,
   consts |-> <<
         [k |-> "str", s |-> <<65>>, n |-> 0],
         [k |-> "str", s |-> <<65>>, n |-> 0],
         [k |-> "str", s |-> <<103, 114, 101, 101, 116>>, n |-> 0],
         [k |-> "fn", s |-> <<>>, n |-> 2],
         [k |-> "str", s |-> <<66>>, n |-> 0],
         [k |-> "str", s |-> <<65>>, n |-> 0],
         [k |-> "str", s |-> <<66>>, n |-> 0],
         [k |-> "str", s |-> <<66>>, n |-> 0],
         [k |-> "str", s |-> <<103, 114, 101, 101, 116>>, n |-> 0],
         [k |-> "fn", s |-> <<>>, n |-> 3],
         [k |-> "str", s |-> <<103, 101, 116>>, n |-> 0],
         [k |-> "fn", s |-> <<>>, n |-> 4],
         [k |-> "str", s |-> <<66>>, n |-> 0],
         [k |-> "str", s |-> <<103, 114, 101, 101, 116>>, n |-> 0],
         [k |-> "str", s |-> <<66>>, n |-> 0],
         [k |-> "str", s |-> <<103, 101, 116>>, n |-> 0]>>],
  [name |-> <<103, 114, 101, 101, 116>>, arity |-> 0, upvalueCount |-> 0,
   code |-> <<0, 0, 16, 1, 16>>,
   consts |-> <<
         [k |-> "str", s |-> <<65>>, n |-> 0]>>],
  [name |-> <<103, 114, 101, 101, 116>>, arity |-> 0, upvalueCount |-> 1,
   code |-> <<20, 0, 24, 0, 13, 0, 0, 0, 1, 30, 16, 1, 16>>,
   consts |-> <<
         [k |-> "str", s |-> <<103, 114, 101, 101, 116>>, n |-> 0],
         [k |-> "str", s |-> <<66>>, n |-> 0]>>],
  [name |-> <<103, 101, 116>>, arity |-> 0, upvalueCount |-> 1,
   code |-> <<20, 0, 24, 0, 28, 0, 20, 1, 16, 1, 16>>,
   consts |-> <<
         [k |-> "str", s |-> <<103, 114, 101, 101, 116>>, n |-> 0]>>]
  >>

\* class P {} var p = P(); p.f = "x" + "y"; var t = "x" + "z"; var u = "x" + "y"; print p.f == u; var w = u + "z";
Program_Strings ==
  <<
  [name |-> <<>>, arity |-> 0, upvalueCount |-> 0,
   code |-> <<34, 0, 19, 0, 21, 1, 4, 21, 3, 11, 0, 19, 2, 21, 4, 0, 6, 0, 7, 30, 27, 5, 4, 0, 9, 0, 10, 30, 19, 8, 0, 12, 0, 13, 30, 19, 11, 21, 14, 26, 15, 21, 16, 29, 7, 21, 18, 0, 19, 30, 19, 17, 1, 16>>,
   consts |-> <<
         [k |-> "str", s |-> <<80>>, n |-> 0],
         [k |-> "str", s |-> <<80>>, n |-> 0],
         [k |-> "str", s |-> <<112>>, n |-> 0],
         [k |-> "str", s |-> <<80>>, n |-> 0],
         [k |-> "str", s |-> <<112>>, n |-> 0],
         [k |-> "str", s |-> <<102>>, n |-> 0],
         [k |-> "str", s |-> <<120>>, n |-> 0],
         [k |-> "str", s |-> <<121>>, n |-> 0],
         [k |-> "str", s |-> <<116>>, n |-> 0],
         [k |-> "str", s |-> <<120>>, n |-> 0],
         [k |-> "str", s |-> <<122>>, n |-> 0],
         [k |-> "str", s |-> <<117>>, n |-> 0],
         [k |-> "str", s |-> <<120>>, n |-> 0],
         [k |-> "str", s |-> <<121>>, n |-> 0],
         [k |-> "str", s |-> <<112>>, n |-> 0],
         [k |-> "str", s |-> <<102>>, n |-> 0],
         [k |-> "str", s |-> <<117>>, n |-> 0],
         [k |-> "str", s |-> <<119>>, n |-> 0],
         [k |-> "str", s |-> <<117>>, n |-> 0],
         [k |-> "str", s |-> <<122>>, n |-> 0]>>]
  >>

\* fun f(n) { var a = n; fun g() { return a; } if (n < 1) return nosuch; if (n < 2) return -g; if (n < 3) return g(1); if (n < 4) return a.x; if (n < 5) return a(); if (n < 6) return a + g; if (n < 7) return g < a; nosuch = a; } f(clock());
Program_Errors ==
  <<
  [name |-> <<>>, arity |-> 0, upvalueCount |-> 0,
   code |-> <<14, 1, 19, 0, 21, 2, 21, 3, 11, 0, 11, 1, 4, 1, 16>>,
   consts |-> <<
         [k |-> "str", s |-> <<102>>, n |-> 0],
         [k |-> "fn", s |-> <<>>, n |-> 2],
         [k |-> "str", s |-> <<102>>, n |-> 0],
         [k |-> "str", s |-> <<99, 108, 111, 99, 107>>, n |-> 0]>>],
  [name |-> <<102>>, arity |-> 1, upvalueCount |-> 0,
   code |-> <<20, 1, 14, 0, 1, 2, 20, 1, 0, 1, 18, 9, 0, 7, 4, 21, 2, 16, 8, 0, 1, 4, 20, 1, 0, 3, 18, 9, 0, 8, 4, 20, 3, 6, 16, 8, 0, 1, 4, 20, 1, 0, 4, 18, 9, 0, 11, 4, 20, 3, 0, 5, 11, 1, 16, 8, 0, 1, 4, 20, 1, 0, 6, 18, 9, 0, 9, 4, 20, 2, 26, 7, 16, 8, 0, 1, 4, 20, 1, 0, 8, 18, 9, 0, 9, 4, 20, 2, 11, 0, 16, 8, 0, 1, 4, 20, 1, 0, 9, 18, 9, 0, 10, 4, 20, 2, 20, 3, 30, 16, 8, 0, 1, 4, 20, 1, 0, 10, 18, 9, 0, 10, 4, 20, 3, 20, 2, 18, 16, 8, 0, 1, 4, 20, 2, 23, 11, 4, 1, 16>>,
   consts |-> <<
         [k |-> "fn", s |-> <<>>, n |-> 3],
         [k |-> "num", s |-> <<>>, n |-> 1],
         [k |-> "str", s |-> <<110, 111, 115, 117, 99, 104>>, n |-> 0],
         [k |-> "num", s |-> <<>>, n |-> 2],
         [k |-> "num", s |-> <<>>, n |-> 3],
         [k |-> "num", s |-> <<>>, n |-> 1],
         [k |-> "num", s |-> <<>>, n |-> 4],
         [k |-> "str", s |-> <<120>>, n |-> 0],
         [k |-> "num", s |-> <<>>, n |-> 5],
         [k |-> "num", s |-> <<>>, n |-> 6],
         [k |-> "num", s |-> <<>>, n |-> 7],
         [k |-> "str", s |-> <<110, 111, 115, 117, 99, 104>>, n |-> 0]>>],
  [name |-> <<103>>, arity |-> 0, upvalueCount |-> 1,
   code |-> <<24, 0, 16, 1, 16>>,
   consts |-> <<>>]
  >>

\* class C { m() { var n = clock(); if (n < 1) return this.nosuch; if (n < 2) return this.nosuch(); if (n < 3) return n.m(); if (n < 4) return C(1); if (n < 5) n.x = 1; if (n < 6) { class D < n {} } return super_(); } } fun super_() { return super_(); } C().m();
Program_Errors2 ==
  <<
  [name |-> <<>>, arity |-> 0, upvalueCount |-> 0,
   code |-> <<34, 0, 19, 0, 21, 1, 14, 3, 36, 2, 4, 14, 5, 19, 4, 21, 6, 11, 0, 12, 7, 0, 4, 1, 16>>,
   consts |-> <<
         [k |-> "str", s |-> <<67>>, n |-> 0],
         [k |-> "str", s |-> <<67>>, n |-> 0],
         [k |-> "str", s |-> <<109>>, n |-> 0],
         [k |-> "fn", s |-> <<>>, n |-> 2],
         [k |-> "str", s |-> <<115, 117, 112, 101, 114, 95>>, n |-> 0],
         [k |-> "fn", s |-> <<>>, n |-> 3],
         [k |-> "str", s |-> <<67>>, n |-> 0],
         [k |-> "str", s |-> <<109>>, n |-> 0]>>],
  [name |-> <<109>>, arity |-> 0, upvalueCount |-> 0,
   code |-> <<21, 0, 11, 0, 20, 1, 0, 1, 18, 9, 0, 9, 4, 20, 0, 26, 2, 16, 8, 0, 1, 4, 20, 1, 0, 3, 18, 9, 0, 10, 4, 20, 0, 12, 4, 0, 16, 8, 0, 1, 4, 20, 1, 0, 5, 18, 9, 0, 10, 4, 20, 1, 12, 6, 0, 16, 8, 0, 1, 4, 20, 1, 0, 7, 18, 9, 0, 11, 4, 21, 8, 0, 9, 11, 1, 16, 8, 0, 1, 4, 20, 1, 0, 10, 18, 9, 0, 11, 4, 20, 1, 0, 12, 27, 11, 4, 8, 0, 1, 4, 20, 1, 0, 13, 18, 9, 0, 16, 4, 34, 14, 20, 1, 20, 2, 35, 20, 2, 4, 4, 4, 8, 0, 1, 4, 21, 15, 11, 0, 16, 1, 16>>,
   consts |-> <<
         [k |-> "str", s |-> <<99, 108, 111, 99, 107>>, n |-> 0],
         [k |-> "num", s |-> <<>>, n |-> 1],
         [k |-> "str", s |-> <<110, 111, 115, 117, 99, 104>>, n |-> 0],
         [k |-> "num", s |-> <<>>, n |-> 2],
         [k |-> "str", s |-> <<110, 111, 115, 117, 99, 104>>, n |-> 0],
         [k |-> "num", s |-> <<>>, n |-> 3],
         [k |-> "str", s |-> <<109>>, n |-> 0],
         [k |-> "num", s |-> <<>>, n |-> 4],
         [k |-> "str", s |-> <<67>>, n |-> 0],
         [k |-> "num", s |-> <<>>, n |-> 1],
         [k |-> "num", s |-> <<>>, n |-> 5],
         [k |-> "str", s |-> <<120>>, n |-> 0],
         [k |-> "num", s |-> <<>>, n |-> 1],
         [k |-> "num", s |-> <<>>, n |-> 6],
         [k |-> "str", s |-> <<68>>, n |-> 0],
         [k |-> "str", s |-> <<115, 117, 112, 101, 114, 95>>, n |-> 0]>>],
  [name |-> <<115, 117, 112, 101, 114, 95>>, arity |-> 0, upvalueCount |-> 0,
   code |-> <<21, 0, 11, 0, 16, 1, 16>>,
   consts |-> <<
         [k |-> "str", s |-> <<115, 117, 112, 101, 114, 95>>, n |-> 0]>>]
  >>

\* emitReturn(): the bytes a bare `return;` and the end of a body emit in a
\* function of the given type
emitReturn_nil(type) == <<OP_NIL, OP_RETURN>>

emitReturn(type) ==
  IF type = "TYPE_INITIALIZER" THEN <<OP_GET_LOCAL, 0, OP_RETURN>>
  ELSE <<OP_NIL, OP_RETURN>>

\* The initializer's two returns are written as the calls of emitReturn()
\* that produce them: returnStatement() for `return;` and endCompiler().
\* class A { get(x) { return x; } } class B < A { init(n) { this.n = n; if (n < 4) return; this.big = n; } viaSuper() { return super.get(); } } fun f(n) { var b = B(n); if (n < 1) return B(); if (n < 2) { var m = b.get; return m(); } if (n < 3) return b.get(); if (n < 4) return b.viaSuper(); if (n < 5) { b.fld = f; return b.fld(); } if (n < 6) return b.n(); return b.get(n); } print f(clock());
Program_Calls ==
  <<
  [name |-> <<>>, arity |-> 0, upvalueCount |-> 0,
   code |-> <<34, 0, 19, 0, 21, 1, 14, 3, 36, 2, 4, 34, 4, 19, 4, 21, 5, 21, 6, 35, 21, 7, 14, 9, 36, 8, 14, 11, 1, 1, 36, 10, 4, 15, 14, 13, 19, 12, 21, 14, 21, 15, 11, 0, 11, 1, 7, 1, 16>>,
   consts |-> <<
         [k |-> "str", s |-> <<65>>, n |-> 0],
         [k |-> "str", s |-> <<65>>, n |-> 0],
         [k |-> "str", s |-> <<103, 101, 116>>, n |-> 0],
         [k |-> "fn", s |-> <<>>, n |-> 2],
         [k |-> "str", s |-> <<66>>, n |-> 0],
         [k |-> "str", s |-> <<65>>, n |-> 0],
         [k |-> "str", s |-> <<66>>, n |-> 0],
         [k |-> "str", s |-> <<66>>, n |-> 0],
         [k |-> "str", s |-> <<105, 110, 105, 116>>, n |-> 0],
         [k |-> "fn", s |-> <<>>, n |-> 3],
         [k |-> "str", s |-> <<118, 105, 97, 83, 117, 112, 101, 114>>, n |-> 0],
         [k |-> "fn", s |-> <<>>, n |-> 4],
         [k |-> "str", s |-> <<102>>, n |-> 0],
         [k |-> "fn", s |-> <<>>, n |-> 5],
         [k |-> "str", s |-> <<102>>, n |-> 0],
         [k |-> "str", s |-> <<99, 108, 111, 99, 107>>, n |-> 0]>>],
  [name |-> <<103, 101, 116>>, arity |-> 1, upvalueCount |-> 0,
   code |-> <<20, 1, 16, 1, 16>>,
   consts |-> <<>>],
  [name |-> <<105, 110, 105, 116>>, arity |-> 1, upvalueCount |-> 0,
   code |-> <<20, 0, 20, 1, 27, 0, 4, 20, 1, 0, 1, 18, 9, 0, 7, 4>>
             \o emitReturn("TYPE_INITIALIZER")
             \o <<8, 0, 1, 4, 20, 0, 20, 1, 27, 2, 4>>
             \o emitReturn("TYPE_INITIALIZER"),
   consts |-> <<
         [k |-> "str", s |-> <<110>>, n |-> 0],
         [k |-> "num", s |-> <<>>, n |-> 4],
         [k |-> "str", s |-> <<98, 105, 103>>, n |-> 0]>>],
  [name |-> <<118, 105, 97, 83, 117, 112, 101, 114>>, arity |-> 0, upvalueCount |-> 1,
   code |-> <<20, 0, 24, 0, 13, 0, 0, 16, 1, 16>>,
   consts |-> <<
         [k |-> "str", s |-> <<103, 101, 116>>, n |-> 0]>>],
  [name |-> <<102>>, arity |-> 1, upvalueCount |-> 0,
   code |-> <<21, 0, 20, 1, 11, 1, 20, 1, 0, 1, 18, 9, 0, 9, 4, 21, 2, 11, 0, 16, 8, 0, 1, 4, 20, 1, 0, 3, 18, 9, 0, 14, 4, 20, 2, 26, 4, 20, 3, 11, 0, 16, 4, 8, 0, 1, 4, 20, 1, 0, 5, 18, 9, 0, 10, 4, 20, 2, 12, 6, 0, 16, 8, 0, 1, 4, 20, 1, 0, 7, 18, 9, 0, 10, 4, 20, 2, 12, 8, 0, 16, 8, 0, 1, 4, 20, 1, 0, 9, 18, 9, 0, 17, 4, 20, 2, 21, 11, 27, 10, 4, 20, 2, 12, 12, 0, 16, 8, 0, 1, 4, 20, 1, 0, 13, 18, 9, 0, 10, 4, 20, 2, 12, 14, 0, 16, 8, 0, 1, 4, 20, 2, 20, 1, 12, 15, 1, 16, 1, 16>>,
   consts |-> <<
         [k |-> "str", s |-> <<66>>, n |-> 0],
         [k |-> "num", s |-> <<>>, n |-> 1],
         [k |-> "str", s |-> <<66>>, n |-> 0],
         [k |-> "num", s |-> <<>>, n |-> 2],
         [k |-> "str", s |-> <<103, 101, 116>>, n |-> 0],
         [k |-> "num", s |-> <<>>, n |-> 3],
         [k |-> "str", s |-> <<103, 101, 116>>, n |-> 0],
         [k |-> "num", s |-> <<>>, n |-> 4],
         [k |-> "str", s |-> <<118, 105, 97, 83, 117, 112, 101, 114>>, n |-> 0],
         [k |-> "num", s |-> <<>>, n |-> 5],
         [k |-> "str", s |-> <<102, 108, 100>>, n |-> 0],
         [k |-> "str", s |-> <<102>>, n |-> 0],
         [k |-> "str", s |-> <<102, 108, 100>>, n |-> 0],
         [k |-> "num", s |-> <<>>, n |-> 6],
         [k |-> "str", s |-> <<110>>, n |-> 0],
         [k |-> "str", s |-> <<103, 101, 116>>, n |-> 0]>>]
  >>

\* var a = 1; var b = 2; var c = 3; var d = 4; var e = 5; a = b; if (clock() < 4) { f = a; } var f = 6; f = e; g = f;
Program_Globals ==
  <<
  [name |-> <<>>, arity |-> 0, upvalueCount |-> 0,
   code |-> <<0, 1, 19, 0, 0, 3, 19, 2, 0, 5, 19, 4, 0, 7, 19, 6, 0, 9, 19, 8, 21, 11, 23, 10, 4, 21, 12, 11, 0, 0, 13, 18, 9, 0, 9, 4, 21, 15, 23, 14, 4, 8, 0, 1, 4, 0, 17, 19, 16, 21, 19, 23, 18, 4, 21, 21, 23, 20, 4, 1, 16>>,
   consts |-> <<
         [k |-> "str", s |-> <<97>>, n |-> 0],
         [k |-> "num", s |-> <<>>, n |-> 1],
         [k |-> "str", s |-> <<98>>, n |-> 0],
         [k |-> "num", s |-> <<>>, n |-> 2],
         [k |-> "str", s |-> <<99>>, n |-> 0],
         [k |-> "num", s |-> <<>>, n |-> 3],
         [k |-> "str", s |-> <<100>>, n |-> 0],
         [k |-> "num", s |-> <<>>, n |-> 4],
         [k |-> "str", s |-> <<101>>, n |-> 0],
         [k |-> "num", s |-> <<>>, n |-> 5],
         [k |-> "str", s |-> <<97>>, n |-> 0],
         [k |-> "str", s |-> <<98>>, n |-> 0],
         [k |-> "str", s |-> <<99, 108, 111, 99, 107>>, n |-> 0],
         [k |-> "num", s |-> <<>>, n |-> 4],
         [k |-> "str", s |-> <<102>>, n |-> 0],
         [k |-> "str", s |-> <<97>>, n |-> 0],
         [k |-> "str", s |-> <<102>>, n |-> 0],
         [k |-> "num", s |-> <<>>, n |-> 6],
         [k |-> "str", s |-> <<102>>, n |-> 0],
         [k |-> "str", s |-> <<101>>, n |-> 0],
         [k |-> "str", s |-> <<103>>, n |-> 0],
         [k |-> "str", s |-> <<102>>, n |-> 0]>>]
  >>

\* class P { m() { return 2; } } fun f(a) { return a; } var p = P(); p.f = f; print p.f(1); p.c = P; print p.c(); p.m = clock; print p.m() < 0;
Program_Fields ==
  <<
  [name |-> <<>>, arity |-> 0, upvalueCount |-> 0,
   code |-> <<34, 0, 19, 0, 21, 1, 14, 3, 36, 2, 4, 14, 5, 19, 4, 21, 7, 11, 0, 19, 6, 21, 8, 21, 10, 27, 9, 4, 21, 11, 0, 13, 12, 12, 1, 7, 21, 14, 21, 16, 27, 15, 4, 21, 17, 12, 18, 0, 7, 21, 19, 21, 21, 27, 20, 4, 21, 22, 12, 23, 0, 0, 24, 18, 7, 1, 16>>,
   consts |-> <<
         [k |-> "str", s |-> <<80>>, n |-> 0],
         [k |-> "str", s |-> <<80>>, n |-> 0],
         [k |-> "str", s |-> <<109>>, n |-> 0],
         [k |-> "fn", s |-> <<>>, n |-> 2],
         [k |-> "str", s |-> <<102>>, n |-> 0],
         [k |-> "fn", s |-> <<>>, n |-> 3],
         [k |-> "str", s |-> <<112>>, n |-> 0],
         [k |-> "str", s |-> <<80>>, n |-> 0],
         [k |-> "str", s |-> <<112>>, n |-> 0],
         [k |-> "str", s |-> <<102>>, n |-> 0],
         [k |-> "str", s |-> <<102>>, n |-> 0],
         [k |-> "str", s |-> <<112>>, n |-> 0],
         [k |-> "str", s |-> <<102>>, n |-> 0],
         [k |-> "num", s |-> <<>>, n |-> 1],
         [k |-> "str", s |-> <<112>>, n |-> 0],
         [k |-> "str", s |-> <<99>>, n |-> 0],
         [k |-> "str", s |-> <<80>>, n |-> 0],
         [k |-> "str", s |-> <<112>>, n |-> 0],
         [k |-> "str", s |-> <<99>>, n |-> 0],
         [k |-> "str", s |-> <<112>>, n |-> 0],
         [k |-> "str", s |-> <<109>>, n |-> 0],
         [k |-> "str", s |-> <<99, 108, 111, 99, 107>>, n |-> 0],
         [k |-> "str", s |-> <<112>>, n |-> 0],
         [k |-> "str", s |-> <<109>>, n |-> 0],
         [k |-> "num", s |-> <<>>, n |-> 0]>>],
  [name |-> <<109>>, arity |-> 0, upvalueCount |-> 0,
   code |-> <<0, 0, 16, 1, 16>>,
   consts |-> <<
         [k |-> "num", s |-> <<>>, n |-> 2]>>],
  [name |-> <<102>>, arity |-> 1, upvalueCount |-> 0,
   code |-> <<20, 1, 16, 1, 16>>,
   consts |-> <<>>]
  >>

Programs ==
  {Program_Closures, Program_Loop, Program_Classes, Program_Super, Program_Strings, Program_Errors, Program_Errors2,
   Program_Calls, Program_Globals, Program_Fields}

(***************************************************************************)
(* scanner.c.  The source is the sequence of its bytes without the         *)
(* terminating NUL; a cursor is an offset into it, so that the NUL is read *)
(* at offset Len(source).  A token's start is the offset of its lexeme;    *)
(* an ERROR token's start is the message, which lies outside the source.   *)
(***************************************************************************)
initScanner == [start |-> 0, current |-> 0, line |-> 1]

\* the byte at offset i; an offset past the NUL is outside the buffer
CharAt(source, i) ==
  IF i < Len(source) THEN source[i + 1] ELSE IF i = Len(source) THEN 0 ELSE -1

isAlpha(c) == (c >= 97 /\ c <= 122) \/ (c >= 65 /\ c <= 90) \/ c = 95

isDigit(c) == c >= 48 /\ c <= 57

isAtEnd(source, sc) == CharAt(source, sc.current) = 0

scanAdvance(sc) == [sc EXCEPT !.current = @ + 1]

scanPeek(source, sc) == CharAt(source, sc.current)

peekNext(source, sc) ==
  IF isAtEnd(source, sc) THEN 0 ELSE CharAt(source, sc.current + 1)

makeToken(sc, type) ==
  [sc |-> sc,
   token |-> [type |-> type, start |-> sc.start,
              length |-> sc.current - sc.start, line |-> sc.line]]

errorToken(sc, message) ==
  [sc |-> sc,
   token |-> [type |-> "TOKEN_ERROR", start |-> message,
              length |-> Len(message), line |-> sc.line]]

\* the loops `while (...) advance();` of skipWhitespace() ("comment"),
\* identifier(), number() ("digits") and string(), which counts newlines
Keep(loop, c) ==
  CASE loop = "comment" -> c # 10 /\ c # 0
    [] loop = "identifier" -> isAlpha(c) \/ isDigit(c)
    [] loop = "digits" -> isDigit(c)
    [] loop = "string" -> c # 34 /\ c # 0

RECURSIVE ScanWhile(_, _, _)
ScanWhile(source, sc, loop) ==
  IF ~Keep(loop, scanPeek(source, sc)) THEN sc
  ELSE ScanWhile(source,
                 scanAdvance(IF loop = "string" /\ scanPeek(source, sc) = 10
                             THEN [sc EXCEPT !.line = @ + 1] ELSE sc),
                 loop)

\* In the '/' case the comment loop is not followed by a break: control
\* falls into `default: return`, with the cursor on the newline or the NUL.
RECURSIVE skipWhitespace(_, _)
skipWhitespace(source, sc) ==
  CASE scanPeek(source, sc) \in {32, 13, 9} -> skipWhitespace(source, scanAdvance(sc))
    [] scanPeek(source, sc) = 10 ->
         skipWhitespace(source, scanAdvance([sc EXCEPT !.line = @ + 1]))
    [] scanPeek(source, sc) = 47 ->
         IF peekNext(source, sc) = 47
         THEN ScanWhile(source, sc, "comment")
         ELSE sc
    [] OTHER -> sc

Lexeme(source, sc) == SubSeq(source, sc.start + 1, sc.current)

checkKeyword(lexeme, start, rest, type) ==
  IF Len(lexeme) = start + Len(rest) /\ SubSeq(lexeme, start + 1, Len(lexeme)) = rest
  THEN type ELSE "TOKEN_IDENTIFIER"

identifierType(lexeme) ==
  CASE lexeme[1] = 97 -> checkKeyword(lexeme, 1, <<110, 100>>, "TOKEN_AND")
    [] lexeme[1] = 99 -> checkKeyword(lexeme, 1, <<108, 97, 115, 115>>, "TOKEN_CLASS")
    [] lexeme[1] = 101 -> checkKeyword(lexeme, 1, <<108, 115, 101>>, "TOKEN_ELSE")
    [] lexeme[1] = 102 /\ Len(lexeme) > 1 /\ lexeme[2] = 97 ->
         checkKeyword(lexeme, 2, <<108, 115, 101>>, "TOKEN_FALSE")
    [] lexeme[1] = 102 /\ Len(lexeme) > 1 /\ lexeme[2] = 111 ->
         checkKeyword(lexeme, 2, <<114>>, "TOKEN_FOR")
    [] lexeme[1] = 102 /\ Len(lexeme) > 1 /\ lexeme[2] = 117 ->
         checkKeyword(lexeme, 2, <<110>>, "TOKEN_FUN")
    [] lexeme[1] = 105 -> checkKeyword(lexeme, 1, <<102>>, "TOKEN_IF")
    [] lexeme[1] = 110 -> checkKeyword(lexeme, 1, <<105, 108>>, "TOKEN_NIL")
    [] lexeme[1] = 111 -> checkKeyword(lexeme, 1, <<114>>, "TOKEN_OR")
    [] lexeme[1] = 112 -> checkKeyword(lexeme, 1, <<114, 105, 110, 116>>, "TOKEN_PRINT")
    [] lexeme[1] = 114 -> checkKeyword(lexeme, 1, <<101, 116, 117, 114, 110>>, "TOKEN_RETURN")
    [] lexeme[1] = 115 -> checkKeyword(lexeme, 1, <<117, 112, 101, 114>>, "TOKEN_SUPER")
    [] lexeme[1] = 116 /\ Len(lexeme) > 1 /\ lexeme[2] = 104 ->
         checkKeyword(lexeme, 2, <<105, 115>>, "TOKEN_THIS")
    [] lexeme[1] = 116 /\ Len(lexeme) > 1 /\ lexeme[2] = 114 ->
         checkKeyword(lexeme, 2, <<117, 101>>, "TOKEN_TRUE")
    [] lexeme[1] = 118 -> checkKeyword(lexeme, 1, <<97, 114>>, "TOKEN_VAR")
    [] lexeme[1] = 119 -> checkKeyword(lexeme, 1, <<104, 105, 108, 101>>, "TOKEN_WHILE")
    [] OTHER -> "TOKEN_IDENTIFIER"

identifier(source, sc) ==
  With(ScanWhile(source, sc, "identifier"),
       LAMBDA s : makeToken(s, identifierType(Lexeme(source, s))))

scanNumber(source, sc) ==
  With(ScanWhile(source, sc, "digits"),
       LAMBDA s :
         IF scanPeek(source, s) = 46 /\ isDigit(peekNext(source, s))
         THEN makeToken(ScanWhile(source, scanAdvance(s), "digits"), "TOKEN_NUMBER")
         ELSE makeToken(s, "TOKEN_NUMBER"))

scanString_closed(source, sc) ==
  makeToken(scanAdvance(ScanWhile(source, sc, "string")), "TOKEN_STRING")

scanString(source, sc) ==
  With(ScanWhile(source, sc, "string"),
       LAMBDA s :
         IF isAtEnd(source, s) THEN errorToken(s, "Unterminated string.")
         ELSE makeToken(scanAdvance(s), "TOKEN_STRING"))

\* match(expected) in a two-character lexeme: the token is two if the next
\* byte is '=', else one
TwoChar(source, sc, two, one) ==
  IF ~isAtEnd(source, sc) /\ scanPeek(source, sc) = 61
  THEN makeToken(scanAdvance(sc), two) ELSE makeToken(sc, one)

\* scanToken() from `char c = advance()` on
ScanLexeme(source, sc, c) ==
  CASE isAlpha(c) -> identifier(source, sc)
    [] isDigit(c) -> scanNumber(source, sc)
    [] c = 40 -> makeToken(sc, "TOKEN_LEFT_PAREN")
    [] c = 41 -> makeToken(sc, "TOKEN_RIGHT_PAREN")
    [] c = 123 -> makeToken(sc, "TOKEN_LEFT_BRACE")
    [] c = 125 -> makeToken(sc, "TOKEN_RIGHT_BRACE")
    [] c = 59 -> makeToken(sc, "TOKEN_SEMICOLON")
    [] c = 44 -> makeToken(sc, "TOKEN_COMMA")
    [] c = 46 -> makeToken(sc, "TOKEN_DOT")
    [] c = 45 -> makeToken(sc, "TOKEN_MINUS")
    [] c = 43 -> makeToken(sc, "TOKEN_PLUS")
    [] c = 47 -> makeToken(sc, "TOKEN_SLASH")
    [] c = 42 -> makeToken(sc, "TOKEN_STAR")
    [] c = 33 -> TwoChar(source, sc, "TOKEN_BANG_EQUAL", "TOKEN_BANG")
    [] c = 61 -> TwoChar(source, sc, "TOKEN_EQUAL_EQUAL", "TOKEN_EQUAL")
    [] c = 60 -> TwoChar(source, sc, "TOKEN_LESS_EQUAL", "TOKEN_LESS")
    [] c = 62 -> TwoChar(source, sc, "TOKEN_GREATER_EQUAL", "TOKEN_GREATER")
    [] c = 34 -> scanString(source, sc)
    [] OTHER -> errorToken(sc, "Unexpected character")

scanToken(source, sc) ==
  With(skipWhitespace(source, sc),
       LAMBDA w :
         With([w EXCEPT !.start = w.current],
              LAMBDA s :
                IF isAtEnd(source, s) THEN makeToken(s, "TOKEN_EOF")
                ELSE ScanLexeme(source, scanAdvance(s), scanPeek(source, s))))

(***************************************************************************)
(* State.                                                                  *)
(*   vm, heap    the machine and the heap                                  *)
(*   pc          where interpret() stands: "run" at the top of the         *)
(*               dispatch loop, the name of the allocating function when   *)
(*               inside reallocate() for a growing request, "done" once    *)
(*               interpret() has returned                                  *)
(*   loc         the locals of the handler that is inside reallocate()     *)
(*   gcPhase     how far collectGarbage() has got                          *)
(*   collections how many times collectGarbage() has been entered          *)
(*   current     compiler.c's chain of compilers (their functions)         *)
(*   shadow      the map a table is compared with: what the calls of       *)
(*               tableSet and tableDelete made so far have left; under     *)
(*               SpecLogic the shape the source was built from, under      *)
(*               SpecJumps the jump offsets and loop starts the compiler   *)
(*               holds in its locals and the jumps it has fixed            *)
(*   mem         memory.c's accounting: vm.bytesAllocated, vm.nextGC, the  *)
(*               gray stack's count and capacity, and where reallocate()   *)
(*               and collectGarbage() stand                                *)
(*   result      what interpret() returned                                 *)
(*   source      the text handed to interpret()                            *)
(*   scanner     scanner.c's cursors                                       *)
(*   parser      compiler.c's parser: the current and the previous token,  *)
(*               hadError, panicMode                                       *)
(*   control     the calls of compiler.c that are in progress, innermost   *)
(*               last, each with the place it has reached and its locals   *)
(*   output      the error messages written to stderr                      *)
(***************************************************************************)
VARIABLES vm, heap, pc, loc, gcPhase, collections, current, shadow, mem, result,
          source, scanner, parser, control, output

front == <<source, scanner, parser, control, output>>

vars == <<vm, heap, pc, loc, gcPhase, collections, current, shadow, mem, result,
          source, scanner, parser, control, output>>

\* initVM(): no byte counted, the first collection at 1 MiB, no gray stack;
\* stress is whether the build defines DEBUG_STRESS_GC; at is where
\* reallocate() stands ("idle" outside it), phase how far collectGarbage()
\* has got, depth the calls of collectGarbage() that have not returned, and
\* request the sizes reallocate() was called with
Mem0 ==
  [bytesAllocated |-> 0, nextGC |-> 1024 * 1024, grayCount |-> 0,
   grayCapacity |-> 0, stress |-> FALSE, at |-> "idle", phase |-> "none",
   depth |-> 0, request |-> [oldSize |-> 0, newSize |-> 0]]

\* the parser before compile(): a global, zero-initialised
Token0 == [type |-> "none", start |-> 0, length |-> 0, line |-> 0]

Parser0 == [current |-> Token0, previous |-> Token0,
            hadError |-> FALSE, panicMode |-> FALSE]

Loc0 == [op |-> 0, a |-> 0, b |-> 0, i |-> 0, chars |-> <<>>]

\* loc.op of the newClosure() call that interpret() makes
INTERPRET == -1

\* interpret(): compile(), push(function), then newClosure(function)
Init ==
  \E fns \in Programs : \E c \in {compile(initVM, fns)} :
    /\ vm = push(c.v, OBJ_VAL(c.ref))
    /\ heap = c.h
    /\ pc = "newClosure"
    /\ loc = [Loc0 EXCEPT !.op = INTERPRET, !.a = c.ref]
    /\ gcPhase = "idle"
    /\ collections = 0
    /\ current = <<>>
    /\ shadow = <<>>
    /\ mem = Mem0
    /\ result = "none"
    /\ source = <<>>
    /\ scanner = initScanner
    /\ parser = Parser0
    /\ control = <<>>
    /\ output = <<>>

(***************************************************************************)
(* run(): the frame on top, its code, the READ_ macros.                    *)
(***************************************************************************)
frameCount == Len(vm.frames)
frame == vm.frames[frameCount]
Chunk == heap[heap[frame.closure].function]

\* the byte at frame->ip + n
ByteAt(n) == Chunk.code[frame.ip + n + 1]
READ_SHORT == ByteAt(1) * 256 + ByteAt(2)
READ_CONSTANT == Chunk.constants[ByteAt(1) + 1]
READ_STRING == AS_OBJ(READ_CONSTANT)

\* the machine with frame->ip moved n bytes on
Advance(v, n) == [v EXCEPT !.frames[Len(v.frames)].ip = @ + n]

Fetch(op) == pc = "run" /\ ByteAt(0) = op

\* How a handler leaves: k is "run" (on to the next instruction), "error"
\* (runtimeError() then `return INTERPRET_RUNTIME_ERROR`), "return"
\* (`return INTERPRET_OK`), or the allocating function whose reallocate()
\* call the handler has reached, with the handler's locals l.
Ok(v, h) == [k |-> "run", v |-> v, h |-> h, l |-> Loc0]
Err(v, h) == [k |-> "error", v |-> v, h |-> h, l |-> Loc0]
Ret(v, h) == [k |-> "return", v |-> v, h |-> h, l |-> Loc0]
At(site, v, h, l) == [k |-> site, v |-> v, h |-> h, l |-> l]

Apply(o) ==
  /\ vm' = (IF o.k = "error" THEN resetStack(o.v) ELSE o.v)
  /\ heap' = o.h
  /\ pc' = (IF o.k \in {"error", "return"} THEN "done" ELSE o.k)
  /\ loc' = o.l
  /\ result' = (CASE o.k = "error" -> "INTERPRET_RUNTIME_ERROR"
                  [] o.k = "return" -> "INTERPRET_OK"
                  [] OTHER -> result)
  /\ UNCHANGED <<gcPhase, collections, current, shadow, mem>>
  /\ UNCHANGED front

(***************************************************************************)
(* The helpers of vm.c, as functions of the machine v and the heap h.      *)
(***************************************************************************)
call_unbounded(v, h, closure, argCount) ==
  IF argCount # h[h[closure].function].arity THEN Err(v, h)
  ELSE Ok([v EXCEPT !.frames =
              Append(@, [closure |-> closure, ip |-> 0,
                         slots |-> v.stackTop - argCount - 1])], h)

call_anyArity(v, h, closure, argCount) ==
  IF Len(v.frames) = FRAMES_MAX THEN Err(v, h)
  ELSE Ok([v EXCEPT !.frames =
              Append(@, [closure |-> closure, ip |-> 0,
                         slots |-> v.stackTop - argCount - 1])], h)

call(v, h, closure, argCount) ==
  IF argCount # h[h[closure].function].arity THEN Err(v, h)
  ELSE IF Len(v.frames) = FRAMES_MAX THEN Err(v, h)
  ELSE Ok([v EXCEPT !.frames =
              Append(@, [closure |-> closure, ip |-> 0,
                         slots |-> v.stackTop - argCount - 1])], h)

\* the values clock() may return: whole seconds up to MaxClock
ClockValues == 0..MaxClock

\* t is what the native function returns
callValue(v, h, callee, argCount, t) ==
  IF ~IS_OBJ(callee) THEN Err(v, h)
  ELSE LET o == h[AS_OBJ(callee)] IN
    CASE o.type = "OBJ_BOUND_METHOD" ->
           call([v EXCEPT !.stack[v.stackTop - argCount] = o.receiver],
                h, o.method, argCount)
      [] o.type = "OBJ_CLASS" ->
           At("newInstance", v, h,
              [Loc0 EXCEPT !.op = OP_CALL, !.a = AS_OBJ(callee), !.i = argCount])
      [] o.type = "OBJ_CLOSURE" -> call(v, h, AS_OBJ(callee), argCount)
      [] o.type = "OBJ_NATIVE" ->
           Ok(push(popN(v, argCount + 1), NUMBER_VAL(t)), h)
      [] OTHER -> Err(v, h)

\* callValue()'s OBJ_CLASS case from the return of newInstance() on
newInstanceDone(v, h, klass, argCount) ==
  LET a  == allocateObject(v, h, ObjInstance(klass))
      v1 == [a.v EXCEPT !.stack[v.stackTop - argCount] = OBJ_VAL(a.ref)]
      initializer == tableGet(a.h, a.h[klass].methods, v1.initString)
  IN  IF initializer.found
      THEN call(v1, a.h, AS_OBJ(initializer.value), argCount)
      ELSE IF argCount # 0 THEN Err(v1, a.h)
      ELSE Ok(v1, a.h)

invokeFromClass(v, h, klass, name, argCount) ==
  LET method == tableGet(h, h[klass].methods, name)
  IN  IF ~method.found THEN Err(v, h)
      ELSE call(v, h, AS_OBJ(method.value), argCount)

\* invoke() without the look into the receiver's fields
invoke_noFields(v, h, name, argCount, t) ==
  LET receiver == peek(v, argCount) IN
  IF ~IS_INSTANCE(h, receiver) THEN Err(v, h)
  ELSE invokeFromClass(v, h, h[AS_OBJ(receiver)].klass, name, argCount)

invoke(v, h, name, argCount, t) ==
  LET receiver == peek(v, argCount) IN
  IF ~IS_INSTANCE(h, receiver) THEN Err(v, h)
  ELSE LET instance == AS_OBJ(receiver)
           value == tableGet(h, h[instance].fields, name)
       IN  IF value.found
           THEN callValue([v EXCEPT !.stack[v.stackTop - argCount] = value.value],
                          h, value.value, argCount, t)
           ELSE invokeFromClass(v, h, h[instance].klass, name, argCount)

\* bindMethod() up to its call of newBoundMethod(); op is the opcode whose
\* handler called it
bindMethod(v, h, klass, name, op) ==
  LET method == tableGet(h, h[klass].methods, name)
  IN  IF ~method.found THEN Err(v, h)
      ELSE At("newBoundMethod", v, h,
              [Loc0 EXCEPT !.op = op, !.a = AS_OBJ(method.value)])

\* case OP_EQUAL
OpEqualBody(v, h) ==
  LET b  == PopValue(v)
      v1 == pop(v)
      a  == PopValue(v1)
  IN  Ok(push(pop(v1), BOOL_VAL(valuesEqual(a, b))), h)

\* bindMethod() from the return of newBoundMethod() on, and then the rest
\* of the handler that called it: case OP_GET_PROPERTY breaks; case
\* OP_GET_SUPER has no break and runs on into case OP_EQUAL
newBoundMethodDone(v, h, method, op) ==
  LET a  == allocateObject(v, h, ObjBoundMethod(peek(v, 0), method))
      v1 == push(pop(a.v), OBJ_VAL(a.ref))
  IN  IF op = OP_GET_SUPER THEN OpEqualBody(v1, a.h) ELSE Ok(v1, a.h)

\* the while loop of captureUpvalue never entered: the search stops at the
\* head of the list
SkipAbove_head(v, h, local, i) == 1

\* the while loop of captureUpvalue: the position in vm.openUpvalues of the
\* first upvalue whose location is not above local
RECURSIVE SkipAbove(_, _, _, _)
SkipAbove(v, h, local, i) ==
  IF i <= Len(v.openUpvalues) /\ h[v.openUpvalues[i]].location > local
  THEN SkipAbove(v, h, local, i + 1)
  ELSE i

InsertAt(seq, i, e) == SubSeq(seq, 1, i - 1) \o <<e>> \o SubSeq(seq, i, Len(seq))

\* the for loop of case OP_CLOSURE from upvalue i on, up to the next call of
\* newUpvalue()
RECURSIVE CaptureFrom(_, _, _, _)
CaptureFrom(v, h, closure, i) ==
  IF i >= h[closure].upvalueCount THEN Ok(v, h)
  ELSE LET fr == v.frames[Len(v.frames)]
           code == h[h[fr.closure].function].code
           isLocal == code[fr.ip + 1]
           index == code[fr.ip + 2]
           local == fr.slots + index
           pos == SkipAbove(v, h, local, 1)
       IN  IF isLocal # 0
           THEN IF pos <= Len(v.openUpvalues)
                   /\ h[v.openUpvalues[pos]].location = local
                THEN CaptureFrom(Advance(v, 2),
                       [h EXCEPT ![closure].upvalues[i + 1] = v.openUpvalues[pos]],
                       closure, i + 1)
                ELSE At("newUpvalue", Advance(v, 2), h,
                        [Loc0 EXCEPT !.op = OP_CLOSURE, !.a = closure,
                                     !.i = i, !.b = local])
           ELSE CaptureFrom(Advance(v, 2),
                  [h EXCEPT ![closure].upvalues[i + 1] =
                              h[fr.closure].upvalues[index + 1]],
                  closure, i + 1)

\* captureUpvalue() from the return of newUpvalue() on, then the for loop
newUpvalueDone(v, h, closure, i, local) ==
  LET a   == allocateObject(v, h, ObjUpvalue(local))
      pos == SkipAbove(v, h, local, 1)
      v1  == [a.v EXCEPT !.openUpvalues = InsertAt(@, pos, a.ref)]
  IN  CaptureFrom(v1, [a.h EXCEPT ![closure].upvalues[i + 1] = a.ref],
                  closure, i + 1)

\* newClosure() returns: case OP_CLOSURE pushes the closure and fills its
\* upvalues; interpret() swaps it for the function, calls it and enters run()
newClosureDone(v, h, function, op) ==
  LET a == allocateObject(v, h, ObjClosure(function, h[function].upvalueCount))
  IN  IF op = INTERPRET
      THEN LET c == call(push(pop(a.v), OBJ_VAL(a.ref)), a.h, a.ref, 0)
           IN  Ok(IF c.k = "error" THEN resetStack(c.v) ELSE c.v, c.h)
      ELSE CaptureFrom(push(a.v, OBJ_VAL(a.ref)), a.h, a.ref, 0)

\* `if` for `while`: at most one upvalue is closed
closeUpvalues_once(v, h, last) ==
  IF Len(v.openUpvalues) > 0 /\ h[Head(v.openUpvalues)].location >= last
  THEN LET upvalue == Head(v.openUpvalues) IN
       [v |-> [v EXCEPT !.openUpvalues = Tail(@)],
        h |-> [h EXCEPT ![upvalue].closed = v.stack[h[upvalue].location + 1],
                        ![upvalue].location = CLOSED]]
  ELSE [v |-> v, h |-> h]

RECURSIVE closeUpvalues(_, _, _)
closeUpvalues(v, h, last) ==
  IF Len(v.openUpvalues) > 0 /\ h[Head(v.openUpvalues)].location >= last
  THEN LET upvalue == Head(v.openUpvalues) IN
       closeUpvalues([v EXCEPT !.openUpvalues = Tail(@)],
                     [h EXCEPT ![upvalue].closed = v.stack[h[upvalue].location + 1],
                               ![upvalue].location = CLOSED],
                     last)
  ELSE [v |-> v, h |-> h]

\* the handlers that call tableSet(), from that call on
defineGlobalDone(v, h, name) ==
  Ok(pop([v EXCEPT !.globals = tableSet(h, @, name, peek(v, 0)).table]), h)

setGlobalDone_keep(v, h, name) ==
  LET t == tableSet(h, v.globals, name, peek(v, 0))
  IN  IF t.isNewKey THEN Err([v EXCEPT !.globals = t.table], h)
      ELSE Ok([v EXCEPT !.globals = t.table], h)

setGlobalDone(v, h, name) ==
  LET t == tableSet(h, v.globals, name, peek(v, 0))
  IN  IF t.isNewKey
      THEN Err([v EXCEPT !.globals = tableDelete(h, t.table, name)], h)
      ELSE Ok([v EXCEPT !.globals = t.table], h)

setPropertyDone(v, h, name) ==
  LET instance == AS_OBJ(peek(v, 1))
      h1 == [h EXCEPT ![instance].fields = tableSet(h, @, name, peek(v, 0)).table]
      value == PopValue(v)
  IN  Ok(push(pop(pop(v)), value), h1)

defineMethod(v, h, name) ==
  LET method == peek(v, 0)
      klass == AS_OBJ(peek(v, 1))
  IN  Ok(pop(v), [h EXCEPT ![klass].methods = tableSet(h, @, name, method).table])

\* no method is copied
AddAllFrom_none(v, h, from, to, i) == Ok(pop(v), h)

\* tableAddAll(from, to) of case OP_INHERIT from bucket i of `from` on, up to
\* the next tableSet() that has to grow `to`; then the pop()
RECURSIVE AddAllFrom(_, _, _, _, _)
AddAllFrom(v, h, from, to, i) ==
  IF i > h[from].methods.capacity THEN Ok(pop(v), h)
  ELSE LET entry == h[from].methods.entries[i] IN
       IF entry.key = NULL THEN AddAllFrom(v, h, from, to, i + 1)
       ELSE IF NeedsGrow(h[to].methods)
       THEN At("adjustCapacity", v, h,
               [Loc0 EXCEPT !.op = OP_INHERIT, !.a = from, !.b = to, !.i = i])
       ELSE AddAllFrom(v,
              [h EXCEPT ![to].methods = tableSet(h, @, entry.key, entry.value).table],
              from, to, i + 1)

inheritDone(v, h, from, to, i) ==
  LET entry == h[from].methods.entries[i]
  IN  AddAllFrom(v,
        [h EXCEPT ![to].methods = tableSet(h, @, entry.key, entry.value).table],
        from, to, i + 1)

\* concatenate() from the return of ALLOCATE(char, length + 1) on, through
\* takeString() up to allocateString()
concatenateDone(v, h) ==
  LET b == h[AS_OBJ(peek(v, 0))]
      a == h[AS_OBJ(peek(v, 1))]
      chars == a.chars \o b.chars
      interned == tableFindString(h, v.strings, chars, hashString(chars))
  IN  IF interned # NULL
      THEN Ok(push(pop(pop(v)), OBJ_VAL(interned)), h)
      ELSE At("allocateString", v, h, [Loc0 EXCEPT !.op = OP_ADD, !.chars = chars])

\* allocateString() from tableSet(&vm.strings, string, NIL_VAL) on, then
\* the end of concatenate()
internDone(v, h, string) ==
  Ok(push(pop(pop([v EXCEPT !.strings = tableSet(h, @, string, NIL_VAL).table])),
          OBJ_VAL(string)), h)

\* allocateString() from the return of ALLOCATE_OBJ on
allocateStringDone(v, h, chars) ==
  LET a == allocateObject(v, h, ObjString(chars, hashString(chars)))
  IN  IF NeedsGrow(a.v.strings)
      THEN At("adjustCapacity", a.v, a.h, [Loc0 EXCEPT !.op = OP_ADD, !.a = a.ref])
      ELSE internDone(a.v, a.h, a.ref)

\* the macro BINARY_OP(valueType, op), op being the operator's characters
BINARY_OP(v, h, op) ==
  IF ~IS_NUMBER(peek(v, 0)) \/ ~IS_NUMBER(peek(v, 1)) THEN Err(v, h)
  ELSE Ok(push(pop(pop(v)),
               CASE op = ">" -> BOOL_VAL(AS_NUMBER(peek(v, 1)) > AS_NUMBER(peek(v, 0)))
                 [] op = "<" -> BOOL_VAL(AS_NUMBER(peek(v, 1)) < AS_NUMBER(peek(v, 0)))
                 [] op = "-" -> NUMBER_VAL(AS_NUMBER(peek(v, 1)) - AS_NUMBER(peek(v, 0)))
                 [] op = "*" -> NUMBER_VAL(AS_NUMBER(peek(v, 1)) * AS_NUMBER(peek(v, 0)))
                 [] op = "/" -> NUMBER_VAL(AS_NUMBER(peek(v, 1)) \div AS_NUMBER(peek(v, 0)))),
          h)

(***************************************************************************)
(* run(): one action per case of the switch.                               *)
(***************************************************************************)
OpConstant == Fetch(OP_CONSTANT) /\ Apply(Ok(push(Advance(vm, 2), READ_CONSTANT), heap))

OpNil == Fetch(OP_NIL) /\ Apply(Ok(push(Advance(vm, 1), NIL_VAL), heap))

OpTrue == Fetch(OP_TRUE) /\ Apply(Ok(push(Advance(vm, 1), BOOL_VAL(TRUE)), heap))

OpFalse == Fetch(OP_FALSE) /\ Apply(Ok(push(Advance(vm, 1), BOOL_VAL(FALSE)), heap))

OpPop == Fetch(OP_POP) /\ Apply(Ok(pop(Advance(vm, 1)), heap))

OpGetLocal ==
  /\ Fetch(OP_GET_LOCAL)
  /\ Apply(Ok(push(Advance(vm, 2), vm.stack[frame.slots + ByteAt(1) + 1]), heap))

OpGetGlobal ==
  /\ Fetch(OP_GET_GLOBAL)
  /\ LET value == tableGet(heap, vm.globals, READ_STRING)
     IN  IF ~value.found THEN Apply(Err(Advance(vm, 2), heap))
         ELSE Apply(Ok(push(Advance(vm, 2), value.value), heap))

OpDefineGlobal ==
  /\ Fetch(OP_DEFINE_GLOBAL)
  /\ IF NeedsGrow(vm.globals)
     THEN Apply(At("adjustCapacity", Advance(vm, 2), heap,
                   [Loc0 EXCEPT !.op = OP_DEFINE_GLOBAL, !.a = READ_STRING]))
     ELSE Apply(defineGlobalDone(Advance(vm, 2), heap, READ_STRING))

OpSetGlobal ==
  /\ Fetch(OP_SET_GLOBAL)
  /\ IF NeedsGrow(vm.globals)
     THEN Apply(At("adjustCapacity", Advance(vm, 2), heap,
                   [Loc0 EXCEPT !.op = OP_SET_GLOBAL, !.a = READ_STRING]))
     ELSE Apply(setGlobalDone(Advance(vm, 2), heap, READ_STRING))

OpSetLocal ==
  /\ Fetch(OP_SET_LOCAL)
  /\ Apply(Ok([Advance(vm, 2) EXCEPT
                 !.stack[frame.slots + ByteAt(1) + 1] = peek(vm, 0)], heap))

OpGetUpvalue ==
  /\ Fetch(OP_GET_UPVALUE)
  /\ LET upvalue == heap[heap[frame.closure].upvalues[ByteAt(1) + 1]]
     IN  Apply(Ok(push(Advance(vm, 2),
                       IF upvalue.location = CLOSED THEN upvalue.closed
                       ELSE vm.stack[upvalue.location + 1]), heap))

OpSetUpvalue ==
  /\ Fetch(OP_SET_UPVALUE)
  /\ LET upvalue == heap[frame.closure].upvalues[ByteAt(1) + 1]
     IN  IF heap[upvalue].location = CLOSED
         THEN Apply(Ok(Advance(vm, 2),
                       [heap EXCEPT ![upvalue].closed = peek(vm, 0)]))
         ELSE Apply(Ok([Advance(vm, 2) EXCEPT
                          !.stack[heap[upvalue].location + 1] = peek(vm, 0)], heap))

OpGetSuper ==
  /\ Fetch(OP_GET_SUPER)
  /\ Apply(bindMethod(pop(Advance(vm, 2)), heap, AS_OBJ(PopValue(vm)),
                      READ_STRING, OP_GET_SUPER))

OpEqual == Fetch(OP_EQUAL) /\ Apply(OpEqualBody(Advance(vm, 1), heap))

OpGetProperty ==
  /\ Fetch(OP_GET_PROPERTY)
  /\ IF ~IS_INSTANCE(heap, peek(vm, 0)) THEN Apply(Err(Advance(vm, 1), heap))
     ELSE LET instance == heap[AS_OBJ(peek(vm, 0))]
              value == tableGet(heap, instance.fields, READ_STRING)
          IN  IF value.found
              THEN Apply(Ok(push(pop(Advance(vm, 2)), value.value), heap))
              ELSE Apply(bindMethod(Advance(vm, 2), heap, instance.klass,
                                    READ_STRING, OP_GET_PROPERTY))

OpSetProperty ==
  /\ Fetch(OP_SET_PROPERTY)
  /\ IF ~IS_INSTANCE(heap, peek(vm, 1)) THEN Apply(Err(Advance(vm, 1), heap))
     ELSE IF NeedsGrow(heap[AS_OBJ(peek(vm, 1))].fields)
     THEN Apply(At("adjustCapacity", Advance(vm, 2), heap,
                   [Loc0 EXCEPT !.op = OP_SET_PROPERTY, !.a = READ_STRING]))
     ELSE Apply(setPropertyDone(Advance(vm, 2), heap, READ_STRING))

OpGreater ==
  /\ Fetch(OP_GREATER)
  /\ Apply(BINARY_OP(Advance(vm, 1), heap, ">"))

OpLess ==
  /\ Fetch(OP_LESS)
  /\ Apply(BINARY_OP(Advance(vm, 1), heap, "<"))

OpAdd ==
  /\ Fetch(OP_ADD)
  /\ IF IS_STRING(heap, peek(vm, 0)) /\ IS_STRING(heap, peek(vm, 1))
     THEN Apply(At("concatenate", Advance(vm, 1), heap, [Loc0 EXCEPT !.op = OP_ADD]))
     ELSE IF IS_NUMBER(peek(vm, 0)) /\ IS_NUMBER(peek(vm, 1))
     THEN Apply(Ok(push(pop(pop(Advance(vm, 1))),
                        NUMBER_VAL(AS_NUMBER(peek(vm, 1)) + AS_NUMBER(peek(vm, 0)))),
                   heap))
     ELSE Apply(Err(Advance(vm, 1), heap))

OpSubtract ==
  /\ Fetch(OP_SUBTRACT)
  /\ Apply(BINARY_OP(Advance(vm, 1), heap, "-"))

OpMultiply ==
  /\ Fetch(OP_MULTIPLY)
  /\ Apply(BINARY_OP(Advance(vm, 1), heap, "*"))

\* numbers are the integers here; the programs of the model divide exactly
OpDivide ==
  /\ Fetch(OP_DIVIDE)
  /\ Apply(BINARY_OP(Advance(vm, 1), heap, "/"))

OpNot ==
  /\ Fetch(OP_NOT)
  /\ Apply(Ok(push(pop(Advance(vm, 1)), BOOL_VAL(isFalsey(PopValue(vm)))), heap))

OpNegate ==
  /\ Fetch(OP_NEGATE)
  /\ IF ~IS_NUMBER(peek(vm, 0)) THEN Apply(Err(Advance(vm, 1), heap))
     ELSE Apply(Ok(push(pop(Advance(vm, 1)), NUMBER_VAL(0 - AS_NUMBER(PopValue(vm)))),
                   heap))

OpPrint == Fetch(OP_PRINT) /\ Apply(Ok(pop(Advance(vm, 1)), heap))

OpJump == Fetch(OP_JUMP) /\ Apply(Ok(Advance(vm, 3 + READ_SHORT), heap))

OpJumpIfFalse ==
  /\ Fetch(OP_JUMP_IF_FALSE)
  /\ Apply(Ok(Advance(vm, IF isFalsey(peek(vm, 0)) THEN 3 + READ_SHORT ELSE 3), heap))

OpLoop == Fetch(OP_LOOP) /\ Apply(Ok(Advance(vm, 3 - READ_SHORT), heap))

OpCall ==
  /\ Fetch(OP_CALL)
  /\ \E t \in ClockValues :
       Apply(callValue(Advance(vm, 2), heap, peek(vm, ByteAt(1)), ByteAt(1), t))

OpInvoke ==
  /\ Fetch(OP_INVOKE)
  /\ \E t \in ClockValues :
       Apply(invoke(Advance(vm, 3), heap, READ_STRING, ByteAt(2), t))

OpSuperInvoke ==
  /\ Fetch(OP_SUPER_INVOKE)
  /\ Apply(invokeFromClass(pop(Advance(vm, 3)), heap, AS_OBJ(PopValue(vm)),
                           READ_STRING, ByteAt(2)))

OpClosure ==
  /\ Fetch(OP_CLOSURE)
  /\ Apply(At("newClosure", Advance(vm, 2), heap,
              [Loc0 EXCEPT !.op = OP_CLOSURE, !.a = AS_OBJ(READ_CONSTANT)]))

OpCloseUpvalue ==
  /\ Fetch(OP_CLOSE_UPVALUE)
  /\ LET c == closeUpvalues(Advance(vm, 1), heap, vm.stackTop - 1)
     IN  Apply(Ok(pop(c.v), c.h))

\* case OP_RETURN without the pop() of the script's closure before
\* `return INTERPRET_OK`
OpReturn_noPop ==
  /\ Fetch(OP_RETURN)
  /\ LET value == PopValue(vm)
         c  == closeUpvalues(pop(Advance(vm, 1)), heap, frame.slots)
         v1 == [c.v EXCEPT !.frames = SubSeq(@, 1, Len(@) - 1)]
     IN  IF Len(v1.frames) = 0 THEN Apply(Ret(v1, c.h))
         ELSE Apply(Ok(push([v1 EXCEPT !.stackTop = frame.slots], value), c.h))

OpReturn ==
  /\ Fetch(OP_RETURN)
  /\ LET value == PopValue(vm)
         c  == closeUpvalues(pop(Advance(vm, 1)), heap, frame.slots)
         v1 == [c.v EXCEPT !.frames = SubSeq(@, 1, Len(@) - 1)]
     IN  IF Len(v1.frames) = 0 THEN Apply(Ret(pop(v1), c.h))
         ELSE Apply(Ok(push([v1 EXCEPT !.stackTop = frame.slots], value), c.h))

OpClass ==
  /\ Fetch(OP_CLASS)
  /\ Apply(At("newClass", Advance(vm, 2), heap,
              [Loc0 EXCEPT !.op = OP_CLASS, !.a = READ_STRING]))

OpInherit ==
  /\ Fetch(OP_INHERIT)
  /\ IF ~IS_CLASS(heap, peek(vm, 1)) THEN Apply(Err(Advance(vm, 1), heap))
     ELSE Apply(AddAllFrom(Advance(vm, 1), heap,
                           AS_OBJ(peek(vm, 1)), AS_OBJ(peek(vm, 0)), 1))

OpMethod ==
  /\ Fetch(OP_METHOD)
  /\ IF NeedsGrow(heap[AS_OBJ(peek(vm, 1))].methods)
     THEN Apply(At("adjustCapacity", Advance(vm, 2), heap,
                   [Loc0 EXCEPT !.op = OP_METHOD, !.a = READ_STRING]))
     ELSE Apply(defineMethod(Advance(vm, 2), heap, READ_STRING))

(***************************************************************************)
(* reallocate() returns the new block: the allocating function goes on,    *)
(* and the handler that called it runs to its end or to its next           *)
(* allocation.                                                             *)
(***************************************************************************)
Returns(site) == pc = site /\ gcPhase = "idle"

NewClosureReturns ==
  Returns("newClosure") /\ Apply(newClosureDone(vm, heap, loc.a, loc.op))

NewUpvalueReturns ==
  Returns("newUpvalue") /\ Apply(newUpvalueDone(vm, heap, loc.a, loc.i, loc.b))

NewClassReturns ==
  /\ Returns("newClass")
  /\ LET a == allocateObject(vm, heap, ObjClass(loc.a))
     IN  Apply(Ok(push(a.v, OBJ_VAL(a.ref)), a.h))

NewInstanceReturns ==
  Returns("newInstance") /\ Apply(newInstanceDone(vm, heap, loc.a, loc.i))

NewBoundMethodReturns ==
  Returns("newBoundMethod") /\ Apply(newBoundMethodDone(vm, heap, loc.a, loc.op))

ConcatenateReturns == Returns("concatenate") /\ Apply(concatenateDone(vm, heap))

AllocateStringReturns ==
  Returns("allocateString") /\ Apply(allocateStringDone(vm, heap, loc.chars))

AdjustCapacityReturns ==
  /\ Returns("adjustCapacity")
  /\ Apply(CASE loc.op = OP_DEFINE_GLOBAL -> defineGlobalDone(vm, heap, loc.a)
             [] loc.op = OP_SET_GLOBAL -> setGlobalDone(vm, heap, loc.a)
             [] loc.op = OP_SET_PROPERTY -> setPropertyDone(vm, heap, loc.a)
             [] loc.op = OP_METHOD -> defineMethod(vm, heap, loc.a)
             [] loc.op = OP_INHERIT -> inheritDone(vm, heap, loc.a, loc.b, loc.i)
             [] loc.op = OP_ADD -> internDone(vm, heap, loc.a))

(***************************************************************************)
(* collectGarbage(), entered from reallocate() on a growing request: in a  *)
(* DEBUG_STRESS_GC build always, otherwise when vm.bytesAllocated exceeds  *)
(* vm.nextGC.  Byte counts are not part of this model, so a collection     *)
(* may start at any growing request.                                       *)
(***************************************************************************)
Sites == {"newClosure", "newUpvalue", "newClass", "newInstance",
          "newBoundMethod", "concatenate", "allocateString", "adjustCapacity"}

\* the references an object holds (object.h)
ValueRefs(values) == {AS_OBJ(values[i]) : i \in {j \in DOMAIN values : IS_OBJ(values[j])}}

TableRefs(table) ==
  TableKeys(table) \cup ValueRefs([i \in 1..table.capacity |-> table.entries[i].value])

RefsOf(h, object) ==
  LET o == h[object] IN
  (CASE o.type = "OBJ_CLOSURE" -> {o.function} \cup {o.upvalues[i] : i \in DOMAIN o.upvalues}
     [] o.type = "OBJ_FUNCTION" -> {o.name} \cup ValueRefs(o.constants)
     [] o.type = "OBJ_UPVALUE" -> ValueRefs(<<o.closed>>)
     [] o.type = "OBJ_CLASS" -> {o.name} \cup TableRefs(o.methods)
     [] o.type = "OBJ_INSTANCE" -> {o.klass} \cup TableRefs(o.fields)
     [] o.type = "OBJ_BOUND_METHOD" -> ValueRefs(<<o.receiver>>) \cup {o.method}
     [] OTHER -> {}) \ {NULL}

\* the roots markRoots() is meant to visit
Roots(v, compilers) ==
  (ValueRefs(SubSeq(v.stack, 1, v.stackTop))
     \cup {v.frames[i].closure : i \in DOMAIN v.frames}
     \cup {v.openUpvalues[i] : i \in DOMAIN v.openUpvalues}
     \cup TableRefs(v.globals)
     \cup {compilers[i] : i \in DOMAIN compilers}) \ {NULL}

OnList(v) == {v.objects[i] : i \in DOMAIN v.objects}

OnOpenList(v) == {v.openUpvalues[i] : i \in DOMAIN v.openUpvalues}

\* the blocks whose mark byte is indeterminate and which the collector can
\* come to read
Indeterminate(v, h, compilers) ==
  {o \in DOMAIN h :
     /\ ~h[o].markKnown
     /\ \/ o \in OnList(v)
        \/ o \in Roots(v, compilers) \cup TableKeys(v.strings)
        \/ \E q \in DOMAIN h : o \in RefsOf(h, q)}

\* the subsets of C with at most n elements
RECURSIVE UpTo(_, _)
UpTo(C, n) ==
  IF n = 0 THEN {{}}
  ELSE LET smaller == UpTo(C, n - 1)
       IN  smaller \cup {s \cup {o} : s \in smaller, o \in C}

\* the heap as the collector finds it when the indeterminate mark bytes of
\* the blocks in S read as true and the others as false
ReadMarks(v, h, S, C) ==
  [o \in DOMAIN h |->
     IF o \in C
     THEN [h[o] EXCEPT !.isMarked = (o \in S),
                       !.markKnown = (o \in OnList(v))]
     ELSE h[o]]

CollectGarbage ==
  /\ pc \in Sites /\ gcPhase = "idle" /\ collections < MaxCollections
  /\ LET C == Indeterminate(vm, heap, current) IN
     \E S \in UpTo(C, MaxStaleMarks) :
       LET st == markRoots(vm, ReadMarks(vm, heap, S, C), current) IN
       /\ heap' = st.h
       /\ vm' = [vm EXCEPT !.grayStack = st.g]
  /\ gcPhase' = "markRoots"
  /\ collections' = collections + 1
  /\ UNCHANGED <<pc, loc, current, shadow, mem, result>>
  /\ UNCHANGED front

TraceReferences ==
  /\ gcPhase = "markRoots"
  /\ LET st == traceReferences([h |-> heap, g |-> vm.grayStack]) IN
       /\ heap' = st.h
       /\ vm' = [vm EXCEPT !.grayStack = st.g]
  /\ gcPhase' = "traceReferences"
  /\ UNCHANGED <<pc, loc, collections, current, shadow, mem, result>>
  /\ UNCHANGED front

TableRemoveWhite ==
  /\ gcPhase = "traceReferences"
  /\ vm' = [vm EXCEPT !.strings = tableRemoveWhite(heap, @)]
  /\ gcPhase' = "tableRemoveWhite"
  /\ UNCHANGED <<heap, pc, loc, collections, current, shadow, mem, result>>
  /\ UNCHANGED front

\* a freed block's mark byte is indeterminate again
Released(h) ==
  [o \in DOMAIN h |->
     IF h[o].freed THEN [h[o] EXCEPT !.isMarked = FALSE, !.markKnown = FALSE]
     ELSE h[o]]

Sweep ==
  /\ gcPhase = "tableRemoveWhite"
  /\ LET s == sweep(heap, vm.objects) IN
       /\ heap' = Released(s.h)
       /\ vm' = [vm EXCEPT !.objects = s.objects]
  /\ gcPhase' = "idle"
  /\ UNCHANGED <<pc, loc, collections, current, shadow, mem, result>>
  /\ UNCHANGED front

(***************************************************************************)
(* Specifications.                                                         *)
(***************************************************************************)
Run ==
  \/ OpConstant \/ OpNil \/ OpTrue \/ OpFalse \/ OpPop
  \/ OpGetLocal \/ OpGetGlobal \/ OpDefineGlobal \/ OpSetGlobal \/ OpSetLocal
  \/ OpGetUpvalue \/ OpSetUpvalue \/ OpGetSuper \/ OpEqual
  \/ OpGetProperty \/ OpSetProperty \/ OpGreater \/ OpLess
  \/ OpAdd \/ OpSubtract \/ OpMultiply \/ OpDivide \/ OpNot \/ OpNegate
  \/ OpPrint \/ OpJump \/ OpJumpIfFalse \/ OpLoop
  \/ OpCall \/ OpInvoke \/ OpSuperInvoke \/ OpClosure \/ OpCloseUpvalue
  \/ OpReturn \/ OpClass \/ OpInherit \/ OpMethod
  \/ NewClosureReturns \/ NewUpvalueReturns \/ NewClassReturns
  \/ NewInstanceReturns \/ NewBoundMethodReturns \/ ConcatenateReturns
  \/ AllocateStringReturns \/ AdjustCapacityReturns

Collect == CollectGarbage \/ TraceReferences \/ TableRemoveWhite \/ Sweep

Next == Run \/ Collect

\* every execution, with collections wherever reallocate() may start one
Spec == Init /\ [][Next]_vars

\* the executions in which vm.bytesAllocated stays under vm.nextGC
SpecNoGC == Init /\ [][Run]_vars

(***************************************************************************)
(* The scanner on its own: every text of up to MaxSource bytes over        *)
(* Alphabet, and the calls `parser.current = scanToken()` that advance()   *)
(* makes (compiler.c 146), as many as the caller likes.                    *)
(***************************************************************************)
\* / newline space " 1 . a = @ o r
Alphabet == {47, 10, 32, 34, 49, 46, 97, 61, 64, 111, 114}

Texts(n) == UNION {[1..k -> Alphabet] : k \in 0..n}

\* the machine before interpret() is called
Idle ==
  /\ vm = initVM_fields
  /\ heap = <<>>
  /\ loc = Loc0
  /\ gcPhase = "idle"
  /\ collections = 0
  /\ current = <<>>
  /\ shadow = <<>>
  /\ mem = Mem0
  /\ result = "none"

InitScan ==
  /\ Idle
  /\ pc = "scanToken"
  /\ source \in Texts(MaxSource)
  /\ scanner = initScanner
  /\ parser = Parser0
  /\ control = <<>>
  /\ output = <<>>

ScanToken ==
  /\ pc = "scanToken"
  /\ \E r \in {scanToken(source, scanner)} :
       /\ scanner' = r.sc
       /\ parser' = [parser EXCEPT !.current = r.token]
  /\ UNCHANGED <<vm, heap, pc, loc, gcPhase, collections, current, shadow, mem, result,
                 source, control, output>>

SpecScan == InitScan /\ [][ScanToken]_vars

\* Precedence (compiler.c 22-34), lowest first
PREC_NONE == 0
PREC_ASSIGNMENT == 1
PREC_OR == 2
PREC_AND == 3
PREC_EQUALITY == 4
PREC_COMPARISON == 5
PREC_TERM == 6
PREC_FACTOR == 7
PREC_UNARY == 8
PREC_CALL == 9
PREC_PRIMARY == 10

(***************************************************************************)
(* compiler.c: the parser.  The functions that only read tokens and report *)
(* errors are operators on S, the scanner, the parser, stderr and the      *)
(* Compiler that `current` points to:                                      *)
(*     [sc |-> scanner, p |-> parser, out |-> output, c |-> compiler]      *)
(* A Compiler is [type, locals, scopeDepth, function]; localCount is       *)
(* Len(locals), and a Local is [name, depth, isCaptured] with the name's   *)
(* bytes.  S also holds vm and the heap, v and h: the chunk being written   *)
(* is that of the function object S.c.function.                            *)
(***************************************************************************)
TokenText(token) == SubSeq(source, token.start + 1, token.start + token.length)

\* errorAt() without the test of panicMode
errorAt_always(S, token, message) ==
  [S EXCEPT !.p.panicMode = TRUE,
            !.p.hadError = TRUE,
            !.out = Append(@, [line |-> token.line, type |-> token.type,
                               message |-> message])]

\* errorAt() without `parser.hadError = true`
errorAt_noFlag(S, token, message) ==
  IF S.p.panicMode THEN S
  ELSE [S EXCEPT !.p.panicMode = TRUE,
                 !.out = Append(@, [line |-> token.line, type |-> token.type,
                                    message |-> message])]

errorAt(S, token, message) ==
  IF S.p.panicMode THEN S
  ELSE [S EXCEPT !.p.panicMode = TRUE,
                 !.p.hadError = TRUE,
                 !.out = Append(@, [line |-> token.line, type |-> token.type,
                                    message |-> message])]

error(S, message) == errorAt(S, S.p.previous, message)

errorAtCurrent(S, message) == errorAt(S, S.p.current, message)

\* advance()'s loop: scan until a token other than ERROR
RECURSIVE ScanNext(_)
ScanNext(S) ==
  With(scanToken(source, S.sc),
       LAMBDA r :
         With([S EXCEPT !.sc = r.sc, !.p.current = r.token],
              LAMBDA S1 :
                IF r.token.type # "TOKEN_ERROR" THEN S1
                ELSE ScanNext(errorAtCurrent(S1, r.token.start))))

advance(S) == ScanNext([S EXCEPT !.p.previous = S.p.current])

consume(S, type, message) ==
  IF S.p.current.type = type THEN advance(S) ELSE errorAtCurrent(S, message)

check(S, type) == S.p.current.type = type

\* match(): the parser afterwards; whether it matched is check(S, type)
match(S, type) == IF check(S, type) THEN advance(S) ELSE S

\* the bytes of "this"
This == <<116, 104, 105, 115>>

\* initCompiler() from the return of newFunction() on
initCompiler(type, function) ==
  [type |-> type, function |-> function, scopeDepth |-> 0,
   locals |-> <<[name |-> IF type # "TYPE_FUNCTION" THEN This ELSE <<>>,
                 depth |-> 0, isCaptured |-> FALSE]>>]

beginScope(S) == [S EXCEPT !.c.scopeDepth = @ + 1]

identifiersEqual(a, b) == Len(a) = Len(b) /\ a = b

\* resolveLocal(): [S, arg], arg = -1 if no local has the name, else its
\* index from 0
RECURSIVE ResolveLocalFrom(_, _, _)
ResolveLocalFrom(S, name, i) ==
  IF i < 0 THEN [S |-> S, arg |-> -1]
  ELSE IF identifiersEqual(name, S.c.locals[i + 1].name)
       THEN [S |-> IF S.c.locals[i + 1].depth = -1
                   THEN error(S, "Can't read local variable in its own initializer.")
                   ELSE S,
             arg |-> i]
       ELSE ResolveLocalFrom(S, name, i - 1)

resolveLocal(S, name) == ResolveLocalFrom(S, name, Len(S.c.locals) - 1)

addLocal(S, name) ==
  IF Len(S.c.locals) = 256
  THEN error(S, "Too many local variables in function.")
  ELSE [S EXCEPT !.c.locals = Append(@, [name |-> name, depth |-> -1,
                                         isCaptured |-> FALSE])]

\* declareVariable()'s loop over the locals, from the last one down
RECURSIVE DeclareFrom(_, _, _)
DeclareFrom(S, name, i) ==
  IF i < 0 THEN S
  ELSE IF S.c.locals[i + 1].depth # -1 /\ S.c.locals[i + 1].depth < S.c.scopeDepth
       THEN S
       ELSE DeclareFrom(IF identifiersEqual(name, S.c.locals[i + 1].name)
                        THEN error(S, "Already variable with this name in this scope.")
                        ELSE S,
                        name, i - 1)

\* declareVariable() without its loop over the locals
declareVariable_unchecked(S) ==
  IF S.c.scopeDepth = 0 THEN S ELSE addLocal(S, TokenText(S.p.previous))

declareVariable(S) ==
  IF S.c.scopeDepth = 0 THEN S
  ELSE addLocal(DeclareFrom(S, TokenText(S.p.previous), Len(S.c.locals) - 1),
                TokenText(S.p.previous))

UINT8_MAX == 255
UINT16_MAX == 65535

\* currentChunk(): the chunk of the function `current` compiles into
currentChunk(S) == S.h[S.c.function]

\* currentChunk()->count
Count(S) == Len(currentChunk(S).code)

\* emitByte(), the line of the byte left out
emitByte(S, byte) == [S EXCEPT !.h[S.c.function].code = Append(@, byte)]

emitBytes(S, byte1, byte2) == emitByte(emitByte(S, byte1), byte2)

RECURSIVE EmitAll(_, _)
EmitAll(S, bytes) ==
  IF bytes = <<>> THEN S ELSE EmitAll(emitByte(S, Head(bytes)), Tail(bytes))

emitLoop(S, loopStart) ==
  With(emitByte(S, OP_LOOP), LAMBDA S1 :
    With(Count(S1) - loopStart + 2, LAMBDA offset :
      emitByte(emitByte(IF offset > UINT16_MAX
                        THEN error(S1, "Loop body too large")
                        ELSE S1,
                        (offset \div 256) % 256),
               offset % 256)))

\* emitJump(): [S, arg], arg the offset of the first placeholder byte
emitJump(S, instruction) ==
  With(emitByte(emitByte(emitByte(S, instruction), 255), 255), LAMBDA S1 :
    [S |-> S1, arg |-> Count(S1) - 2])

\* patchJump() that measures the jump from the placeholder itself
patchJump_short(S, offset) ==
  With(Count(S) - offset, LAMBDA jump :
    With(IF jump > UINT16_MAX THEN error(S, "Too much code to jump over.") ELSE S,
         LAMBDA S1 :
           [S1 EXCEPT !.h[S.c.function].code[offset + 1] = (jump \div 256) % 256,
                      !.h[S.c.function].code[offset + 2] = jump % 256]))

patchJump(S, offset) ==
  With(Count(S) - offset - 2, LAMBDA jump :
    With(IF jump > UINT16_MAX THEN error(S, "Too much code to jump over.") ELSE S,
         LAMBDA S1 :
           [S1 EXCEPT !.h[S.c.function].code[offset + 1] = (jump \div 256) % 256,
                      !.h[S.c.function].code[offset + 2] = jump % 256]))

\* makeConstant(): [S, arg]; addConstant() appends the value to the
\* chunk's constants and returns its index
makeConstant(S, value) ==
  With(Len(currentChunk(S).constants), LAMBDA constant :
    With([S EXCEPT !.h[S.c.function].constants = Append(@, value)], LAMBDA S1 :
      IF constant > UINT8_MAX
      THEN [S |-> error(S1, "Too many constants in one chunk."), arg |-> 0]
      ELSE [S |-> S1, arg |-> constant]))

emitConstant(S, value) ==
  With(makeConstant(S, value), LAMBDA m : emitBytes(m.S, OP_CONSTANT, m.arg))

\* copyString() called by the compiler: [S, ref]
CopyString(S, chars) ==
  With(copyString(S.v, S.h, chars), LAMBDA s :
    [S |-> [S EXCEPT !.v = s.v, !.h = s.h], ref |-> s.ref])

\* identifierConstant(): [S, arg]
identifierConstant(S, name) ==
  With(CopyString(S, name), LAMBDA s : makeConstant(s.S, OBJ_VAL(s.ref)))

\* strtod() on the lexeme of a NUMBER token that has no fraction
RECURSIVE strtod(_)
strtod(text) ==
  IF text = <<>> THEN 0
  ELSE strtod(SubSeq(text, 1, Len(text) - 1)) * 10 + (text[Len(text)] - 48)

\* parseVariable(): [S, arg]
parseVariable(S, errorMessage) ==
  With(declareVariable(consume(S, "TOKEN_IDENTIFIER", errorMessage)), LAMBDA S1 :
    IF S1.c.scopeDepth > 0 THEN [S |-> S1, arg |-> 0]
    ELSE identifierConstant(S1, TokenText(S1.p.previous)))

markInitialized(S) ==
  IF S.c.scopeDepth = 0 THEN S
  ELSE [S EXCEPT !.c.locals[Len(S.c.locals)].depth = S.c.scopeDepth]

defineVariable(S, global) ==
  IF S.c.scopeDepth > 0 THEN markInitialized(S)
  ELSE emitBytes(S, OP_DEFINE_GLOBAL, global)

\* endScope()'s loop: a local of the scope that has ended is popped, or
\* closed if a closure has captured it, and dropped
RECURSIVE PopLocals(_)
PopLocals(S) ==
  IF Len(S.c.locals) > 0 /\ S.c.locals[Len(S.c.locals)].depth > S.c.scopeDepth
  THEN PopLocals([emitByte(S, IF S.c.locals[Len(S.c.locals)].isCaptured
                              THEN OP_CLOSE_UPVALUE ELSE OP_POP)
                    EXCEPT !.c.locals = SubSeq(@, 1, Len(@) - 1)])
  ELSE S

\* endScope() that forgets the locals of the scope and emits nothing
endScope_silent(S) ==
  [S EXCEPT !.c.scopeDepth = @ - 1,
            !.c.locals = SelectSeq(@, LAMBDA local : local.depth < S.c.scopeDepth)]

endScope(S) == PopLocals([S EXCEPT !.c.scopeDepth = @ - 1])

\* rules[]: the prefix and the infix function and the precedence of a token
Prefix(type) ==
  CASE type = "TOKEN_LEFT_PAREN" -> "grouping"
    [] type \in {"TOKEN_MINUS", "TOKEN_BANG"} -> "unary"
    [] type = "TOKEN_IDENTIFIER" -> "variable"
    [] type = "TOKEN_STRING" -> "string"
    [] type = "TOKEN_NUMBER" -> "number"
    [] type \in {"TOKEN_FALSE", "TOKEN_NIL", "TOKEN_TRUE"} -> "literal"
    [] type = "TOKEN_SUPER" -> "super_"
    [] type = "TOKEN_THIS" -> "this_"
    [] OTHER -> "NULL"

Infix(type) ==
  CASE type = "TOKEN_LEFT_PAREN" -> "call"
    [] type = "TOKEN_DOT" -> "dot"
    [] type \in {"TOKEN_MINUS", "TOKEN_PLUS", "TOKEN_SLASH", "TOKEN_STAR",
                 "TOKEN_BANG_EQUAL", "TOKEN_EQUAL_EQUAL", "TOKEN_GREATER",
                 "TOKEN_GREATER_EQUAL", "TOKEN_LESS", "TOKEN_LESS_EQUAL"} -> "binary"
    [] type = "TOKEN_AND" -> "and_"
    [] type = "TOKEN_OR" -> "or_"
    [] OTHER -> "NULL"

Precedence(type) ==
  CASE type \in {"TOKEN_LEFT_PAREN", "TOKEN_DOT"} -> PREC_CALL
    [] type \in {"TOKEN_MINUS", "TOKEN_PLUS"} -> PREC_TERM
    [] type \in {"TOKEN_SLASH", "TOKEN_STAR"} -> PREC_FACTOR
    [] type \in {"TOKEN_BANG_EQUAL", "TOKEN_EQUAL_EQUAL"} -> PREC_EQUALITY
    [] type \in {"TOKEN_GREATER", "TOKEN_GREATER_EQUAL", "TOKEN_LESS",
                 "TOKEN_LESS_EQUAL"} -> PREC_COMPARISON
    [] type = "TOKEN_AND" -> PREC_AND
    [] type = "TOKEN_OR" -> PREC_OR
    [] OTHER -> PREC_NONE


(***************************************************************************)
(* compiler.c: the functions that call one another recursively.  Each call *)
(* in progress is a frame of `control`, [fn, at] with the function and the *)
(* place in it that control has reached, plus the function's own           *)
(* variables; an action is one function running from that place to its     *)
(* next call of such a function or to its return.  The Compiler of         *)
(* compile() is a variable of its frame.  classDeclaration() and           *)
(* funDeclaration() are not modelled: the sources of SpecCompile have no   *)
(* `class` and no `fun`, so `currentClass` is NULL throughout.             *)
(***************************************************************************)
Top == control[Len(control)]

\* where `current` points: the innermost frame that holds a Compiler
CompilerIndex(ctl) ==
  CHOOSE i \in DOMAIN ctl :
    /\ ctl[i].fn = "compile"
    /\ \A j \in DOMAIN ctl : j > i => ctl[j].fn # "compile"

Bundle ==
  [sc |-> scanner, p |-> parser, out |-> output,
   c |-> control[CompilerIndex(control)].compiler, v |-> vm, h |-> heap]

\* a call of a statement function: its place and its local variables
Frame(fn) ==
  [fn |-> fn, at |-> "start", global |-> 0, loopStart |-> 0, exitJump |-> -1,
   bodyJump |-> 0, incrementStart |-> 0, thenJump |-> 0, elseJump |-> 0]

\* a call of parsePrecedence(precedence) with the local variables of the
\* prefix or infix function it is in; canAssign has from the start the
\* value the function gives it before its first use
PrecFrame(precedence) ==
  [fn |-> "parsePrecedence", at |-> "start", precedence |-> precedence,
   canAssign |-> precedence <= PREC_ASSIGNMENT, argCount |-> 0,
   operatorType |-> "none", jump |-> 0, setOp |-> 0, arg |-> 0,
   callee |-> "none", name |-> 0]

\* the calls in progress when the function on top goes on at `at`, calls
\* callee and goes on at `at` afterwards, returns, or ends by calling callee;
\* CallFrom: the function on top, its variables now those of `top`, calls
Resume(at) == [control EXCEPT ![Len(control)].at = at]
Call(at, callee) == Append(Resume(at), callee)
CallFrom(top, callee) == Append([control EXCEPT ![Len(control)] = top], callee)
Return == SubSeq(control, 1, Len(control) - 1)
TailCall(callee) == Append(Return, callee)

Go(S, ctl) ==
  /\ scanner' = S.sc
  /\ parser' = S.p
  /\ output' = S.out
  /\ vm' = S.v
  /\ heap' = S.h
  /\ control' = [ctl EXCEPT ![CompilerIndex(ctl)].compiler = S.c]
  /\ UNCHANGED <<pc, loc, gcPhase, collections, current, shadow, mem, result, source>>

Running(fn) == pc = "compile" /\ control # <<>> /\ Top.fn = fn

\* the keywords at which synchronize() stops
Starters == {"TOKEN_CLASS", "TOKEN_FUN", "TOKEN_VAR", "TOKEN_FOR", "TOKEN_IF",
             "TOKEN_WHILE", "TOKEN_PRINT", "TOKEN_RETURN"}

\* The loop body ends after the switch: nothing in it calls advance().
Synchronize ==
  /\ Running("synchronize")
  /\ CASE Top.at = "start" ->
            Go([Bundle EXCEPT !.p.panicMode = FALSE], Resume("while"))
       [] Top.at = "while" ->
            IF parser.current.type = "TOKEN_EOF" THEN Go(Bundle, Return)
            ELSE IF parser.previous.type = "TOKEN_SEMICOLON" THEN Go(Bundle, Return)
            ELSE Go(Bundle, Resume("switch"))
       [] Top.at = "switch" ->
            IF parser.current.type \in Starters THEN Go(Bundle, Return)
            ELSE Go(Bundle, Resume("while"))

Declaration ==
  /\ Running("declaration")
  /\ CASE Top.at = "start" ->
            IF check(Bundle, "TOKEN_VAR")
            THEN Go(advance(Bundle), Call("end", Frame("varDeclaration")))
            ELSE Go(Bundle, Call("end", Frame("statement")))
       [] Top.at = "end" ->
            IF parser.panicMode THEN Go(Bundle, TailCall(Frame("synchronize")))
            ELSE Go(Bundle, Return)

Statement ==
  /\ Running("statement")
  /\ CASE Top.at = "start" ->
            CASE check(Bundle, "TOKEN_PRINT") ->
                   Go(advance(Bundle), TailCall(Frame("printStatement")))
              [] check(Bundle, "TOKEN_FOR") ->
                   Go(advance(Bundle), TailCall(Frame("forStatement")))
              [] check(Bundle, "TOKEN_IF") ->
                   Go(advance(Bundle), TailCall(Frame("ifStatement")))
              [] check(Bundle, "TOKEN_RETURN") ->
                   Go(advance(Bundle), TailCall(Frame("returnStatement")))
              [] check(Bundle, "TOKEN_WHILE") ->
                   Go(advance(Bundle), TailCall(Frame("whileStatement")))
              [] check(Bundle, "TOKEN_LEFT_BRACE") ->
                   Go(beginScope(advance(Bundle)), Call("endScope", Frame("block")))
              [] OTHER -> Go(Bundle, TailCall(Frame("expressionStatement")))
       [] Top.at = "endScope" -> Go(endScope(Bundle), Return)

Block ==
  /\ Running("block")
  /\ IF ~check(Bundle, "TOKEN_RIGHT_BRACE") /\ ~check(Bundle, "TOKEN_EOF")
     THEN Go(Bundle, Call("start", Frame("declaration")))
     ELSE Go(consume(Bundle, "TOKEN_RIGHT_BRACE", "Expect '}' after block."), Return)

VarDeclaration ==
  /\ Running("varDeclaration")
  /\ CASE Top.at = "start" ->
            (\E g \in {parseVariable(Bundle, "Expect variable name.")} :
              IF check(g.S, "TOKEN_EQUAL")
              THEN Go(advance(g.S),
                      CallFrom([Top EXCEPT !.at = "end", !.global = g.arg],
                               PrecFrame(PREC_ASSIGNMENT)))
              ELSE Go(defineVariable(
                        consume(emitByte(g.S, OP_NIL), "TOKEN_SEMICOLON",
                                "Expect ';' after variable declaration"),
                        g.arg),
                      Return))
       [] Top.at = "end" ->
            Go(defineVariable(consume(Bundle, "TOKEN_SEMICOLON",
                                      "Expect ';' after variable declaration"),
                              Top.global),
               Return)

ExpressionStatement ==
  /\ Running("expressionStatement")
  /\ CASE Top.at = "start" -> Go(Bundle, Call("end", PrecFrame(PREC_ASSIGNMENT)))
       [] Top.at = "end" ->
            Go(emitByte(consume(Bundle, "TOKEN_SEMICOLON",
                                "Expect ';' after expression."),
                        OP_POP),
               Return)

PrintStatement ==
  /\ Running("printStatement")
  /\ CASE Top.at = "start" -> Go(Bundle, Call("end", PrecFrame(PREC_ASSIGNMENT)))
       [] Top.at = "end" ->
            Go(emitByte(consume(Bundle, "TOKEN_SEMICOLON", "Expect ';' after value."),
                        OP_PRINT),
               Return)

ReturnStatement ==
  /\ Running("returnStatement")
  /\ CASE Top.at = "start" ->
            (\E S \in {IF Bundle.c.type = "TYPE_SCRIPT"
                      THEN error(Bundle, "Can't return from top-level code.")
                      ELSE Bundle} :
              IF check(S, "TOKEN_SEMICOLON")
              THEN Go(EmitAll(advance(S), emitReturn(S.c.type)), Return)
              ELSE Go(IF S.c.type = "TYPE_INITIALIZER"
                      THEN error(S, "Can't return value from an initializer.")
                      ELSE S,
                      Call("end", PrecFrame(PREC_ASSIGNMENT))))
       [] Top.at = "end" ->
            Go(emitByte(consume(Bundle, "TOKEN_SEMICOLON",
                                "Expect ';' after return value."),
                        OP_RETURN),
               Return)

IfStatement ==
  /\ Running("ifStatement")
  /\ CASE Top.at = "start" ->
            Go(consume(Bundle, "TOKEN_LEFT_PAREN", "Expect '{' after 'if'."),
               Call("condition", PrecFrame(PREC_ASSIGNMENT)))
       [] Top.at = "condition" ->
            (\E thenJump \in {emitJump(consume(Bundle, "TOKEN_RIGHT_PAREN",
                                              "Expect '}' after condition."),
                                      OP_JUMP_IF_FALSE)} :
              Go(emitByte(thenJump.S, OP_POP),
                 CallFrom([Top EXCEPT !.at = "then", !.thenJump = thenJump.arg],
                          Frame("statement"))))
       [] Top.at = "then" ->
            (\E elseJump \in {emitJump(Bundle, OP_JUMP)} :
              \E S \in {emitByte(patchJump(elseJump.S, Top.thenJump), OP_POP)} :
                IF check(S, "TOKEN_ELSE")
                THEN Go(advance(S),
                        CallFrom([Top EXCEPT !.at = "else",
                                             !.elseJump = elseJump.arg],
                                 Frame("statement")))
                ELSE Go(patchJump(S, elseJump.arg), Return))
       [] Top.at = "else" -> Go(patchJump(Bundle, Top.elseJump), Return)

WhileStatement ==
  /\ Running("whileStatement")
  /\ CASE Top.at = "start" ->
            Go(consume(Bundle, "TOKEN_LEFT_PAREN", "Expect '(' after 'while'."),
               CallFrom([Top EXCEPT !.at = "condition", !.loopStart = Count(Bundle)],
                        PrecFrame(PREC_ASSIGNMENT)))
       [] Top.at = "condition" ->
            (\E exitJump \in {emitJump(consume(Bundle, "TOKEN_RIGHT_PAREN",
                                              "Expect ')' after condition."),
                                      OP_JUMP_IF_FALSE)} :
              Go(emitByte(exitJump.S, OP_POP),
                 CallFrom([Top EXCEPT !.at = "body", !.exitJump = exitJump.arg],
                          Frame("statement"))))
       [] Top.at = "body" ->
            Go(emitByte(patchJump(emitLoop(Bundle, Top.loopStart), Top.exitJump),
                        OP_POP),
               Return)

ForStatement ==
  /\ Running("forStatement")
  /\ LET Body(S, loopStart, exitJump) ==
           Go(S, CallFrom([Top EXCEPT !.at = "end", !.loopStart = loopStart,
                                      !.exitJump = exitJump],
                          Frame("statement")))
         Increment(S, loopStart, exitJump) ==
           IF check(S, "TOKEN_RIGHT_PAREN") THEN Body(advance(S), loopStart, exitJump)
           ELSE \E bodyJump \in {emitJump(S, OP_JUMP)} :
                  Go(bodyJump.S,
                     CallFrom([Top EXCEPT !.at = "increment",
                                          !.loopStart = loopStart,
                                          !.exitJump = exitJump,
                                          !.bodyJump = bodyJump.arg,
                                          !.incrementStart = Count(bodyJump.S)],
                              PrecFrame(PREC_ASSIGNMENT)))
         Condition(S) ==
           IF check(S, "TOKEN_SEMICOLON") THEN Increment(advance(S), Count(S), -1)
           ELSE Go(S, CallFrom([Top EXCEPT !.at = "condition",
                                           !.loopStart = Count(S)],
                               PrecFrame(PREC_ASSIGNMENT)))
     IN  CASE Top.at = "start" ->
                (\E S \in {consume(beginScope(Bundle), "TOKEN_LEFT_PAREN",
                                  "Expect '(' after 'for'.")} :
                  IF check(S, "TOKEN_SEMICOLON") THEN Condition(advance(S))
                  ELSE IF check(S, "TOKEN_VAR")
                  THEN Go(advance(S), Call("initializer", Frame("varDeclaration")))
                  ELSE Go(S, Call("initializer", Frame("expressionStatement"))))
           [] Top.at = "initializer" -> Condition(Bundle)
           [] Top.at = "condition" ->
                (\E exitJump \in {emitJump(consume(Bundle, "TOKEN_SEMICOLON",
                                                  "Expect ';' after loop condition."),
                                          OP_JUMP_IF_FALSE)} :
                  Increment(emitByte(exitJump.S, OP_POP), Top.loopStart,
                            exitJump.arg))
           [] Top.at = "increment" ->
                Body(patchJump(
                       emitLoop(consume(emitByte(Bundle, OP_POP), "TOKEN_RIGHT_PAREN",
                                        "Expect ')' after for clauses."),
                                Top.loopStart),
                       Top.bodyJump),
                     Top.incrementStart, Top.exitJump)
           [] Top.at = "end" ->
                (\E S \in {emitLoop(Bundle, Top.loopStart)} :
                  Go(endScope(IF Top.exitJump # -1
                              THEN emitByte(patchJump(S, Top.exitJump), OP_POP)
                              ELSE S),
                     Return))

\* the bytes of "super"
Super == <<115, 117, 112, 101, 114>>

\* namedVariable() up to its test of canAssign: [S, getOp, setOp, arg].
\* No function encloses the script, so resolveUpvalue() finds nothing.
Resolve(S, name) ==
  With(resolveLocal(S, name), LAMBDA r :
    IF r.arg # -1
    THEN [S |-> r.S, getOp |-> OP_GET_LOCAL, setOp |-> OP_SET_LOCAL, arg |-> r.arg]
    ELSE With(identifierConstant(r.S, name), LAMBDA k :
           [S |-> k.S, getOp |-> OP_GET_GLOBAL, setOp |-> OP_SET_GLOBAL,
            arg |-> k.arg]))

\* namedVariable(name, false)
namedVariable(S, name) ==
  With(Resolve(S, name), LAMBDA r : emitBytes(r.S, r.getOp, r.arg))

\* what call(), dot() and super_() emit once argumentList() has returned
AfterArguments(S, callee, name, argCount) ==
  CASE callee = "call" -> emitBytes(S, OP_CALL, argCount)
    [] callee = "dot" -> emitByte(emitBytes(S, OP_INVOKE, name), argCount)
    [] callee = "super_" ->
         emitByte(emitBytes(namedVariable(S, Super), OP_SUPER_INVOKE, name),
                  argCount)

\* argumentList() from its first test on, called by callee; the loop goes
\* on at "arguments" when the argument's expression() returns
ArgumentList(S, callee, name) ==
  IF ~check(S, "TOKEN_RIGHT_PAREN")
  THEN Go(S, CallFrom([Top EXCEPT !.at = "arguments", !.argCount = 0,
                                  !.callee = callee, !.name = name],
                      PrecFrame(PREC_ASSIGNMENT)))
  ELSE Go(AfterArguments(consume(S, "TOKEN_RIGHT_PAREN",
                                 "Expect ')' after arguments."),
                         callee, name, 0),
          Resume("infix"))

\* namedVariable(name, canAssign) called by a prefix rule
NamedVariable(S, name, canAssign) ==
  \E r \in {Resolve(S, name)} :
    IF canAssign /\ check(r.S, "TOKEN_EQUAL")
    THEN Go(advance(r.S),
            CallFrom([Top EXCEPT !.at = "assign", !.setOp = r.setOp,
                                 !.arg = r.arg],
                     PrecFrame(PREC_ASSIGNMENT)))
    ELSE Go(emitBytes(r.S, r.getOp, r.arg), Resume("infix"))

\* super_() with currentClass = NULL
Super_(S) ==
  \E S0 \in {consume(consume(error(S, "Can't use 'super' outside of a class."),
                             "TOKEN_DOT", "Expect '.' after 'super'."),
                     "TOKEN_IDENTIFIER", "Expect superclass method name.")} :
    \E name \in {identifierConstant(S0, TokenText(S0.p.previous))} :
      \E S1 \in {namedVariable(name.S, This)} :
        IF check(S1, "TOKEN_LEFT_PAREN")
        THEN ArgumentList(advance(S1), "super_", name.arg)
        ELSE Go(emitBytes(namedVariable(S1, Super), OP_GET_SUPER, name.arg),
                Resume("infix"))

\* dot()
Dot(S, canAssign) ==
  \E S0 \in {consume(S, "TOKEN_IDENTIFIER", "Expect property name after '.'.")} :
    \E name \in {identifierConstant(S0, TokenText(S0.p.previous))} :
      IF canAssign /\ check(name.S, "TOKEN_EQUAL")
      THEN Go(advance(name.S),
              CallFrom([Top EXCEPT !.at = "assign", !.setOp = OP_SET_PROPERTY,
                                   !.arg = name.arg],
                       PrecFrame(PREC_ASSIGNMENT)))
      ELSE IF check(name.S, "TOKEN_LEFT_PAREN")
      THEN ArgumentList(advance(name.S), "dot", name.arg)
      ELSE Go(emitBytes(name.S, OP_GET_PROPERTY, name.arg), Resume("infix"))

\* and_() without its OP_POP
and_keep(S) == emitJump(S, OP_JUMP_IF_FALSE)

\* and_() up to its parsePrecedence(PREC_AND): [S, arg], arg is endJump
and_(S) ==
  With(emitJump(S, OP_JUMP_IF_FALSE), LAMBDA endJump :
    [S |-> emitByte(endJump.S, OP_POP), arg |-> endJump.arg])

\* or_() up to its parsePrecedence(PREC_OR): [S, arg], arg is endJump
or_(S) ==
  With(emitJump(S, OP_JUMP_IF_FALSE), LAMBDA elseJump :
    With(emitJump(elseJump.S, OP_JUMP), LAMBDA endJump :
      [S |-> emitByte(patchJump(endJump.S, elseJump.arg), OP_POP),
       arg |-> endJump.arg]))

\* the switch of binary()
BinaryOps(operatorType) ==
  CASE operatorType = "TOKEN_BANG_EQUAL" -> <<OP_EQUAL, OP_NOT>>
    [] operatorType = "TOKEN_EQUAL_EQUAL" -> <<OP_EQUAL>>
    [] operatorType = "TOKEN_GREATER" -> <<OP_GREATER>>
    [] operatorType = "TOKEN_GREATER_EQUAL" -> <<OP_LESS, OP_NOT>>
    [] operatorType = "TOKEN_LESS" -> <<OP_LESS>>
    [] operatorType = "TOKEN_LESS_EQUAL" -> <<OP_GREATER, OP_NOT>>
    [] operatorType = "TOKEN_PLUS" -> <<OP_ADD>>
    [] operatorType = "TOKEN_MINUS" -> <<OP_SUBTRACT>>
    [] operatorType = "TOKEN_STAR" -> <<OP_MULTIPLY>>
    [] operatorType = "TOKEN_SLASH" -> <<OP_DIVIDE>>
    [] OTHER -> <<>>

\* the switch of unary()
UnaryOps(operatorType) ==
  CASE operatorType = "TOKEN_BANG" -> <<OP_NOT>>
    [] operatorType = "TOKEN_MINUS" -> <<OP_NEGATE>>
    [] OTHER -> <<>>

\* the switch of literal()
LiteralOps(type) ==
  CASE type = "TOKEN_FALSE" -> <<OP_FALSE>>
    [] type = "TOKEN_TRUE" -> <<OP_TRUE>>
    [] type = "TOKEN_NIL" -> <<OP_NIL>>
    [] OTHER -> <<>>

\* string(): the lexeme without its quotes
String(S) ==
  With(CopyString(S, SubSeq(source, S.p.previous.start + 2,
                            S.p.previous.start + S.p.previous.length - 1)),
       LAMBDA s : emitConstant(s.S, OBJ_VAL(s.ref)))

\* parsePrecedence() and the prefix and infix functions it calls through
\* rules[]: "infix" is the test of its while loop, where every one of them
\* returns to; each goes on at the place of its own name after the
\* parsePrecedence() it calls, namedVariable() and dot() at "assign", and
\* argumentList() at "arguments".
ParsePrecedence ==
  /\ Running("parsePrecedence")
  /\ CASE Top.at = "start" ->
            (\E S \in {advance(Bundle)} :
                   \E ctl \in {Resume("infix")} :
                          CASE Prefix(S.p.previous.type) = "NULL" ->
                                 Go(error(S, "Expect expression."), Return)
                            [] Prefix(S.p.previous.type) = "number" ->
                                 Go(emitConstant(
                                      S, NUMBER_VAL(strtod(TokenText(S.p.previous)))),
                                    ctl)
                            [] Prefix(S.p.previous.type) = "string" ->
                                 Go(String(S), ctl)
                            [] Prefix(S.p.previous.type) = "literal" ->
                                 Go(EmitAll(S, LiteralOps(S.p.previous.type)), ctl)
                            [] Prefix(S.p.previous.type) = "this_" ->
                                 Go(error(S, "Can't use 'this' outside of a class."),
                                    ctl)
                            [] Prefix(S.p.previous.type) = "variable" ->
                                 NamedVariable(S, TokenText(S.p.previous),
                                               Top.canAssign)
                            [] Prefix(S.p.previous.type) = "unary" ->
                                 Go(S, CallFrom([Top EXCEPT
                                                   !.at = "unary",
                                                   !.operatorType = S.p.previous.type],
                                                PrecFrame(PREC_UNARY)))
                            [] Prefix(S.p.previous.type) = "grouping" ->
                                 Go(S, Append([ctl EXCEPT ![Len(ctl)].at = "grouping"],
                                              PrecFrame(PREC_ASSIGNMENT)))
                            [] Prefix(S.p.previous.type) = "super_" -> Super_(S))
       [] Top.at = "grouping" ->
            Go(consume(Bundle, "TOKEN_RIGHT_PAREN", "Expect ')' after expression."),
               Resume("infix"))
       [] Top.at = "unary" ->
            Go(EmitAll(Bundle, UnaryOps(Top.operatorType)), Resume("infix"))
       [] Top.at = "binary" ->
            Go(EmitAll(Bundle, BinaryOps(Top.operatorType)), Resume("infix"))
       [] Top.at \in {"and_", "or_"} ->
            Go(patchJump(Bundle, Top.jump), Resume("infix"))
       [] Top.at = "assign" ->
            Go(emitBytes(Bundle, Top.setOp, Top.arg), Resume("infix"))
       [] Top.at = "arguments" ->
            (\E S \in {IF Top.argCount + 1 = 255
                      THEN error(Bundle, "Can't have more than 255 arguments.")
                      ELSE Bundle} :
              IF check(S, "TOKEN_COMMA")
              THEN Go(advance(S),
                      Append([control EXCEPT ![Len(control)].argCount = @ + 1],
                             PrecFrame(PREC_ASSIGNMENT)))
              ELSE Go(AfterArguments(consume(S, "TOKEN_RIGHT_PAREN",
                                             "Expect ')' after arguments."),
                                     Top.callee, Top.name, Top.argCount + 1),
                      Resume("infix")))
       [] Top.at = "infix" ->
            IF Top.precedence <= Precedence(parser.current.type)
            THEN (\E S \in {advance(Bundle)} :
                        CASE Infix(S.p.previous.type) = "binary" ->
                               Go(S, CallFrom(
                                       [Top EXCEPT !.at = "binary",
                                                   !.operatorType = S.p.previous.type],
                                       PrecFrame(Precedence(S.p.previous.type) + 1)))
                          [] Infix(S.p.previous.type) = "and_" ->
                               (\E endJump \in {and_(S)} :
                                 Go(endJump.S,
                                    CallFrom([Top EXCEPT !.at = "and_",
                                                         !.jump = endJump.arg],
                                             PrecFrame(PREC_AND))))
                          [] Infix(S.p.previous.type) = "or_" ->
                               (\E endJump \in {or_(S)} :
                                 Go(endJump.S,
                                    CallFrom([Top EXCEPT !.at = "or_",
                                                         !.jump = endJump.arg],
                                             PrecFrame(PREC_OR))))
                          [] Infix(S.p.previous.type) = "call" ->
                               ArgumentList(S, "call", 0)
                          [] Infix(S.p.previous.type) = "dot" -> Dot(S, Top.canAssign))
            ELSE Go(IF Top.canAssign /\ check(Bundle, "TOKEN_EQUAL")
                    THEN error(advance(Bundle), "Invalid assignment target.")
                    ELSE Bundle,
                    Return)

\* the Compiler of compile() before initCompiler() has filled it in
Compiler0 == [type |-> "none", function |-> NULL, scopeDepth |-> 0, locals |-> <<>>]

\* `current` as the list of the functions of the compilers it leads to, the
\* innermost first.  initCompiler(): `compiler->enclosing = current;
\* current = compiler;`
PushCompiler(chain, function) == <<function>> \o chain

\* endCompiler() without `current = current->enclosing`
PopCompiler_keep(chain) == chain

\* endCompiler(): `current = current->enclosing;`
PopCompiler(chain) == Tail(chain)

\* loc.op while interpret() waits for compile() and once it has its result
COMPILE == -2

\* compile(): up to its loop; the loop, one declaration() at a time; and
\* endCompiler() with the return of its function, or of NULL, to interpret()
Compile ==
  /\ Running("compile")
  /\ CASE Top.at = "start" ->
            \E a \in {allocateObject(vm, heap, ObjFunction)} :
              \E S \in {advance([sc |-> initScanner,
                                 p |-> [parser EXCEPT !.hadError = FALSE,
                                                      !.panicMode = FALSE],
                                 out |-> output,
                                 c |-> initCompiler("TYPE_SCRIPT", a.ref),
                                 v |-> a.v, h |-> a.h])} :
                /\ vm' = S.v
                /\ heap' = S.h
                /\ scanner' = S.sc
                /\ parser' = S.p
                /\ output' = S.out
                /\ control' = [control EXCEPT ![Len(control)].at = "loop",
                                              ![Len(control)].compiler = S.c]
                /\ current' = PushCompiler(current, a.ref)
                /\ UNCHANGED <<pc, loc, gcPhase, collections, shadow, mem, result, source>>
       [] Top.at = "loop" ->
            IF ~check(Bundle, "TOKEN_EOF")
            THEN Go(Bundle, Call("loop", Frame("declaration")))
            ELSE \E S \in {EmitAll(advance(Bundle), emitReturn(Bundle.c.type))} :
                   /\ scanner' = S.sc
                   /\ parser' = S.p
                   /\ output' = S.out
                   /\ vm' = S.v
                   /\ heap' = S.h
                   /\ control' = <<>>
                   /\ pc' = "interpret"
                   /\ loc' = [Loc0 EXCEPT !.op = COMPILE,
                                          !.a = IF S.p.hadError THEN NULL
                                                ELSE S.c.function]
                   /\ current' = PopCompiler(current)
                   /\ UNCHANGED <<gcPhase, collections, shadow, mem, result, source>>

\* interpret() once compile() has returned `function`, loc.a
Interpret ==
  /\ pc = "interpret"
  /\ loc.op = COMPILE
  /\ IF loc.a = NULL
     THEN /\ result' = "INTERPRET_COMPILE_ERROR"
          /\ pc' = "done"
          /\ UNCHANGED <<vm, loc>>
     ELSE /\ vm' = push(vm, OBJ_VAL(loc.a))
          /\ pc' = "newClosure"
          /\ loc' = [Loc0 EXCEPT !.op = INTERPRET, !.a = loc.a]
          /\ UNCHANGED result
  /\ UNCHANGED <<heap, gcPhase, collections, current, shadow, mem, front>>

(***************************************************************************)
(* The sources given to compile(): words separated by one space.  Every    *)
(* sequence of up to MaxWords words, and every program of Seeds with any   *)
(* one of its words replaced by any word.                                  *)
(***************************************************************************)
Words ==
  << <<112, 114, 105, 110, 116>>,   \* 1: print
     <<118, 97, 114>>,   \* 2: var
     <<114, 101, 116, 117, 114, 110>>,   \* 3: return
     <<105, 102>>,   \* 4: if
     <<101, 108, 115, 101>>,   \* 5: else
     <<119, 104, 105, 108, 101>>,   \* 6: while
     <<102, 111, 114>>,   \* 7: for
     <<116, 104, 105, 115>>,   \* 8: this
     <<115, 117, 112, 101, 114>>,   \* 9: super
     <<97, 110, 100>>,   \* 10: and
     <<111, 114>>,   \* 11: or
     <<97>>,   \* 12: a
     <<49>>,   \* 13: 1
     <<34, 115, 34>>,   \* 14: "s"
     <<59>>,   \* 15: ;
     <<61>>,   \* 16: =
     <<123>>,   \* 17: {
     <<125>>,   \* 18: }
     <<40>>,   \* 19: (
     <<41>>,   \* 20: )
     <<44>>,   \* 21: ,
     <<46>>,   \* 22: .
     <<43>>,   \* 23: +
     <<45>>,   \* 24: -
     <<64>>,   \* 25: @
     <<34>>,   \* 26: "
     <<47, 47>> >>   \* 27: //

Seeds ==
  \* var a = 1 ; print a + 1 ;
  { <<2, 12, 16, 13, 15, 1, 12, 23, 13, 15>>,
  \* { var a = a ; a = 1 ; }
    <<17, 2, 12, 16, 12, 15, 12, 16, 13, 15, 18>>,
  \* if ( a ) print 1 ; else return ;
    <<4, 19, 12, 20, 1, 13, 15, 5, 3, 15>>,
  \* for ( var a = 1 ; a ; a = - a ) print a ;
    <<7, 19, 2, 12, 16, 13, 15, 12, 15, 12, 16, 24, 12, 20, 1, 12, 15>>,
  \* while ( a . a ( 1 , 1 ) ) a . a = ( 1 ) ;
    <<6, 19, 12, 22, 12, 19, 13, 21, 13, 20, 20, 12, 22, 12, 16, 19, 13, 20, 15>>,
  \* print super . a ( ) and this or "s" ;
    <<1, 9, 22, 12, 19, 20, 10, 8, 11, 14, 15>>,
  \* print 1 1 ; print 1 ;
    <<1, 13, 13, 15, 1, 13, 15>>,
  \* 1 + ; print @ ; a ( ;
    <<13, 23, 15, 1, 25, 15, 12, 19, 15>> }

RECURSIVE JoinWords(_)
JoinWords(ws) ==
  IF ws = <<>> THEN <<>>
  ELSE IF Len(ws) = 1 THEN Words[ws[1]]
  ELSE Words[ws[1]] \o <<32>> \o JoinWords(Tail(ws))

Sources ==
  {JoinWords(ws) : ws \in UNION {[1..k -> DOMAIN Words] : k \in 0..MaxWords}}
  \cup UNION {{JoinWords([s EXCEPT ![i] = w]) : i \in DOMAIN s, w \in DOMAIN Words} :
              s \in Seeds}

\* interpret(source) has just called compile(source)
InitCompile ==
  /\ vm = initVM.v
  /\ heap = initVM.h
  /\ pc = "compile"
  /\ loc = [Loc0 EXCEPT !.op = COMPILE]
  /\ gcPhase = "idle"
  /\ collections = 0
  /\ current = <<>>
  /\ shadow = <<>>
  /\ mem = Mem0
  /\ result = "none"
  /\ source \in Sources
  /\ scanner = initScanner
  /\ parser = Parser0
  /\ control = <<[fn |-> "compile", at |-> "start", compiler |-> Compiler0]>>
  /\ output = <<>>

NextCompile ==
  \/ Compile
  \/ Declaration
  \/ Synchronize
  \/ Statement
  \/ Block
  \/ VarDeclaration
  \/ ExpressionStatement
  \/ PrintStatement
  \/ ReturnStatement
  \/ IfStatement
  \/ WhileStatement
  \/ ForStatement
  \/ ParsePrecedence
  \/ Interpret

SpecCompile == InitCompile /\ [][NextCompile]_vars

\* interpret() is inside compile() or about to use what it returned
Busy == pc \in {"compile", "interpret"}

\* compile() is one thread that runs whenever it can take a step.  A step
\* of NextCompile is possible exactly while Busy, so its weak fairness is
\* written with Busy for ENABLED; the loop of synchronize() is named on
\* its own.
FairCompile ==
  /\ SpecCompile
  /\ WF_vars(Synchronize)
  /\ ([]<>(~Busy) \/ []<><<NextCompile>>_vars)


(***************************************************************************)
(* The garbage collector.                                                  *)
(***************************************************************************)
\* the objects reachable from the set S of objects
RECURSIVE Closure(_, _)
Closure(h, S) ==
  With(S \cup UNION {RefsOf(h, o) : o \in S},
       LAMBDA T : IF T = S THEN S ELSE Closure(h, T))

Reachable(v, h, compilers) == Closure(h, Roots(v, compilers))

\* C1: a collection frees no reachable object: every object that is on the
\* object list, not freed and reachable from the stack, the frames'
\* closures, the open upvalues, the globals or the compiler chain when
\* sweep() starts is on the list and not freed when sweep() returns.
C1_ReachableSurvive ==
  [][Sweep =>
       \A o \in Reachable(vm, heap, current) :
         (o \in OnList(vm) /\ ~heap[o].freed)
           => (o \in OnList(vm') /\ ~heap'[o].freed)]_vars

\* C2: when traceReferences() has returned the gray stack is empty and
\* every object a marked object refers to is marked.
C2_MarkedClosed ==
  gcPhase = "traceReferences" =>
    /\ vm.grayStack = <<>>
    /\ \A o \in OnList(vm) :
         heap[o].isMarked => \A r \in RefsOf(heap, o) : heap[r].isMarked

\* C3: between collections the object vm.initString points to is allocated
\* and is a key of vm.strings.
C3_InitStringKept ==
  gcPhase = "idle" =>
    /\ ~heap[vm.initString].freed
    /\ vm.initString \in TableKeys(vm.strings)

\* C4: sweep() leaves on the object list exactly the objects that were
\* marked, in their order, each with its mark cleared, and frees every
\* object of the list that was not marked.
C4_SweepKeepsMarked ==
  [][Sweep =>
       /\ vm'.objects = SelectSeq(vm.objects, LAMBDA o : heap[o].isMarked)
       /\ \A o \in OnList(vm) :
            IF heap[o].isMarked
            THEN ~heap'[o].isMarked /\ ~heap'[o].freed
            ELSE ~heap[o].freed /\ heap'[o].freed]_vars

\* C5: when a collection returns every key of vm.strings is an object on
\* the object list that has not been freed.
C5_NoDanglingInterned ==
  [][Sweep =>
       \A k \in TableKeys(vm'.strings) :
         k \in OnList(vm') /\ ~heap'[k].freed]_vars

Strings(h, S) == {o \in S : h[o].type = "OBJ_STRING"}

\* C6: no two distinct live strings have the same characters, and no two
\* keys of vm.strings have the same characters.
C6_Interned ==
  /\ \A a, b \in Strings(heap, Reachable(vm, heap, current)) :
       heap[a].chars = heap[b].chars => a = b
  /\ \A a, b \in TableKeys(vm.strings) :
       heap[a].chars = heap[b].chars => a = b

(***************************************************************************)
(* The open upvalues, the end of interpret(), OP_GET_SUPER.                *)
(***************************************************************************)
\* the upvalues a closure holds that are not closed
OpenOf(h, closure) ==
  {h[closure].upvalues[i] : i \in DOMAIN h[closure].upvalues} \ {NULL}

\* C7: vm.openUpvalues is sorted by strictly descending location (so no
\* two of its upvalues have one location); an upvalue that a closure holds
\* and that is not closed is on it; and captureUpvalue() makes a new upvalue
\* only for a slot that none on the list has, puts it on the list and
\* returns it.
C7_OpenUpvaluesSorted ==
  /\ [](/\ \A i \in 1..(Len(vm.openUpvalues) - 1) :
            heap[vm.openUpvalues[i]].location > heap[vm.openUpvalues[i + 1]].location
        /\ \A i \in DOMAIN vm.openUpvalues :
            heap[vm.openUpvalues[i]].location # CLOSED
        /\ result # "INTERPRET_RUNTIME_ERROR" =>
             \A c \in DOMAIN heap :
               (heap[c].type = "OBJ_CLOSURE" /\ ~heap[c].freed) =>
                 \A u \in OpenOf(heap, c) :
                   heap[u].location # CLOSED => u \in OnOpenList(vm))
  /\ [][NewUpvalueReturns =>
          /\ \A u \in OnOpenList(vm) : heap[u].location # loc.b
          /\ OnOpenList(vm') = OnOpenList(vm) \cup {Len(heap) + 1}
          /\ heap'[Len(heap) + 1].location = loc.b
          /\ heap'[loc.a].upvalues[loc.i + 1] = Len(heap) + 1]_vars

\* f has captured three locals, one of them for two closures
C7_Witness ==
  /\ Len(vm.openUpvalues) = 3
  /\ \E c, d \in DOMAIN heap :
       /\ c # d /\ heap[c].type = "OBJ_CLOSURE" /\ heap[d].type = "OBJ_CLOSURE"
       /\ OpenOf(heap, c) \cap OpenOf(heap, d) \cap OnOpenList(vm) # {}

\* C8: when interpret() has returned INTERPRET_OK the value stack is
\* empty, no frame is left and no upvalue is open.
C8_EmptyAfterOk ==
  result = "INTERPRET_OK" =>
    vm.stackTop = 0 /\ Len(vm.frames) = 0 /\ vm.openUpvalues = <<>>

\* a program that has closed upvalues has returned INTERPRET_OK
C8_Witness ==
  /\ result = "INTERPRET_OK"
  /\ \E u \in DOMAIN heap : heap[u].type = "OBJ_UPVALUE" /\ heap[u].location = CLOSED

\* C9: once a runtime error is raised the value stack is empty, no frame
\* is left, no upvalue is open, interpret() has returned
\* INTERPRET_RUNTIME_ERROR, and no step follows the return.
C9_ErrorResets ==
  /\ [](result = "INTERPRET_RUNTIME_ERROR" =>
          /\ pc = "done"
          /\ vm.stackTop = 0 /\ Len(vm.frames) = 0 /\ vm.openUpvalues = <<>>)
  /\ [][pc # "done" /\ (pc' = "done" => result' # "none")]_vars

\* a runtime error raised in a call, and one raised at FRAMES_MAX frames
C9_Witness ==
  /\ result = "INTERPRET_RUNTIME_ERROR"
  /\ Len(vm.stack) > 2

\* C10: OP_GET_SUPER, whose handler has popped the superclass, leaves the
\* stack as high as it is then, with the bound method of the instance and
\* the superclass's method on top in the place of the instance.
C10_GetSuper ==
  [][(pc = "newBoundMethod" /\ loc.op = OP_GET_SUPER /\ pc' = "run") =>
       /\ vm'.stackTop = vm.stackTop
       /\ IS_OBJ(peek(vm', 0))
       /\ heap'[AS_OBJ(peek(vm', 0))].type = "OBJ_BOUND_METHOD"
       /\ heap'[AS_OBJ(peek(vm', 0))].receiver = peek(vm, 0)
       /\ heap'[AS_OBJ(peek(vm', 0))].method = loc.a]_vars

C12_CallChecks ==
  [][LET None == [k |-> "none", x |-> NIL_VAL, n |-> 0]
         Found(k, e, n) == IF e.found THEN [k |-> k, x |-> e.value, n |-> n] ELSE None
         \* what the step hands to callValue() ("value") or to call() ("closure")
         target ==
           CASE pc = "run" /\ ByteAt(0) = OP_CALL ->
                  [k |-> "value", x |-> peek(vm, ByteAt(1)), n |-> ByteAt(1)]
             [] pc = "run" /\ ByteAt(0) = OP_INVOKE
                  /\ IS_INSTANCE(heap, peek(vm, ByteAt(2))) ->
                  LET instance == heap[AS_OBJ(peek(vm, ByteAt(2)))]
                      field == tableGet(heap, instance.fields, READ_STRING)
                  IN  IF field.found THEN Found("value", field, ByteAt(2))
                      ELSE Found("closure",
                                 tableGet(heap, heap[instance.klass].methods, READ_STRING),
                                 ByteAt(2))
             [] pc = "run" /\ ByteAt(0) = OP_SUPER_INVOKE ->
                  Found("closure",
                        tableGet(heap, heap[AS_OBJ(peek(vm, 0))].methods, READ_STRING),
                        ByteAt(2))
             [] pc = "newInstance" /\ gcPhase = "idle" /\ gcPhase' = "idle" ->
                  Found("closure",
                        tableGet(heap, heap[loc.a].methods, vm.initString), loc.i)
             [] OTHER -> None
         type == IF IS_OBJ(target.x) THEN heap[AS_OBJ(target.x)].type ELSE "none"
         closure ==
           CASE target.k = "closure" -> AS_OBJ(target.x)
             [] target.k = "value" /\ type = "OBJ_CLOSURE" -> AS_OBJ(target.x)
             [] target.k = "value" /\ type = "OBJ_BOUND_METHOD" ->
                  heap[AS_OBJ(target.x)].method
             [] OTHER -> NULL
         failed == result' = "INTERPRET_RUNTIME_ERROR" /\ vm'.frames = <<>>
     IN  /\ (closure # NULL /\ target.n # heap[heap[closure].function].arity) => failed
         /\ ( /\ target.k = "value"
              /\ type \notin {"OBJ_BOUND_METHOD", "OBJ_CLASS", "OBJ_CLOSURE", "OBJ_NATIVE"} )
              => failed
    ]_vars

\* Program_Calls, clock() = 3: b.viaSuper() has run super.get() without the
\* argument get(x) wants; OP_SUPER_INVOKE popped the superclass A from the
\* seventh slot and the error emptied the stack below it
C12_Witness ==
  /\ result = "INTERPRET_RUNTIME_ERROR"
  /\ Len(vm.stack) >= 7
  /\ IS_CLASS(heap, vm.stack[7])
  /\ heap[heap[AS_OBJ(vm.stack[7])].name].chars = <<65>>

C14_SetGlobal ==
  [][LET direct == pc = "run" /\ ByteAt(0) = OP_SET_GLOBAL /\ pc' # "adjustCapacity"
         grown == /\ pc = "adjustCapacity" /\ loc.op = OP_SET_GLOBAL
                  /\ gcPhase = "idle" /\ gcPhase' = "idle"
         name == IF grown THEN loc.a ELSE READ_STRING
         Before(k) == tableGet(heap, vm.globals, k)
         After_(k) == tableGet(heap', vm'.globals, k)
         others == {k \in 1..Len(heap) : heap[k].type = "OBJ_STRING" /\ k # name}
     IN  (direct \/ grown) =>
           /\ \A k \in others : After_(k) = Before(k)
           /\ IF Before(name).found
              THEN /\ pc' = "run"
                   /\ After_(name) = [found |-> TRUE, value |-> peek(vm, 0)]
                   /\ vm'.stackTop = vm.stackTop
                   /\ peek(vm', 0) = peek(vm, 0)
              ELSE /\ result' = "INTERPRET_RUNTIME_ERROR"
                   /\ ~After_(name).found
    ]_vars

\* Program_Globals, clock() < 4: `f = a` has failed on a full table, which
\* was grown to 16 entries before f was found to be new; a tombstone is left
C14_Witness ==
  /\ result = "INTERPRET_RUNTIME_ERROR"
  /\ vm.globals.capacity = 16
  /\ vm.globals.count = 7
  /\ Cardinality(TableKeys(vm.globals)) = 6

(***************************************************************************)
(* C19.  The scanner's cursors stay within the source and its NUL; the     *)
(* lexeme of every token but ERROR lies within the source; EOF is the      *)
(* empty lexeme at the NUL; a call that returns a token other than EOF has *)
(* moved the cursor on, and a call after EOF returns the same EOF token    *)
(* and moves nothing.                                                      *)
(***************************************************************************)
C19_ScannerBounds ==
  /\ [](/\ 0 <= scanner.start
        /\ scanner.start <= scanner.current
        /\ scanner.current <= Len(source)
        /\ parser.current.type \notin {"none", "TOKEN_ERROR"} =>
              /\ parser.current.start >= 0
              /\ parser.current.length >= 0
              /\ parser.current.start + parser.current.length <= Len(source)
        /\ parser.current.type = "TOKEN_EOF" =>
              /\ parser.current.start = Len(source)
              /\ parser.current.length = 0)
  /\ [][/\ parser'.current.type # "TOKEN_EOF" => scanner'.current > scanner.current
        /\ parser.current.type = "TOKEN_EOF" =>
              parser'.current = parser.current /\ scanner' = scanner]_vars

\* an unterminated string has taken the scanner to the NUL, and the call
\* after the ERROR token has returned EOF
C19_Witness ==
  /\ source = <<97, 32, 34, 10>>
  /\ parser.current.type = "TOKEN_EOF"
  /\ scanner.line = 2

(***************************************************************************)
(* C20.  In a source that begins with a `//` comment ended by a newline,   *)
(* the first call of scanToken() returns what it returns on the text after *)
(* that newline, found that much further on and one line down.             *)
(***************************************************************************)
C20_CommentSkipped ==
  [][LET \* the offset just after the first newline
         RECURSIVE LineEnd(_)
         LineEnd(i) == IF source[i] = 10 THEN i ELSE LineEnd(i + 1)
         n == LineEnd(1)
         rest == scanToken(SubSeq(source, n + 1, Len(source)), initScanner).token
     IN  ( /\ scanner.current = 0
          /\ parser.current.type = "none"
          /\ Len(source) >= 3
          /\ SubSeq(source, 1, 2) = <<47, 47>>
          /\ \E i \in 3..Len(source) : source[i] = 10 ) =>
           /\ parser'.current.type = rest.type
           /\ parser'.current.line = rest.line + 1
           /\ parser'.current.type # "TOKEN_ERROR" =>
                 /\ parser'.current.start = rest.start + n
                 /\ parser'.current.length = rest.length
    ]_vars

\* C15: compile(source) terminates for every source: after a compile error
\* the parser still reaches EOF in finitely many steps and compile() returns
\* to interpret(), which is the only place where no call is in progress.
C15_CompileTerminates == <>(control = <<>>)

\* C16: synchronize() discards tokens until a semicolon has just been
\* consumed or the current token is a statement starter or EOF: a pass of
\* its loop that does not return consumes a token; when it returns panic
\* mode is clear and one of the stop conditions holds; and it discards
\* nothing once a stop condition holds.
C16_Synchronize ==
  [][Running("synchronize") =>
       LET stop(p) == \/ p.previous.type = "TOKEN_SEMICOLON"
                      \/ p.current.type \in Starters \cup {"TOKEN_EOF"}
       IN  /\ (Top.at = "switch" /\ Len(control') = Len(control))
                => scanner'.current > scanner.current
           /\ Len(control') < Len(control)
                => ~parser'.panicMode /\ stop(parser')
           /\ stop(parser) => parser' = [parser EXCEPT !.panicMode = FALSE]]_vars

\* C17: errors are suppressed while the parser is in panic mode: nothing
\* is reported in panic mode, the error that starts panic mode reports
\* exactly one message and sets hadError, only synchronize() ends panic
\* mode, and hadError is never cleared again during the compile.
C17_PanicSuppresses ==
  [][/\ parser.panicMode => output' = output
     /\ (~parser.panicMode /\ parser'.panicMode)
          => Len(output') = Len(output) + 1 /\ parser'.hadError
     /\ Len(output') <= Len(output) + 1
     /\ SubSeq(output', 1, Len(output)) = output
     /\ (parser.panicMode /\ ~parser'.panicMode) => Running("synchronize")
     /\ parser.hadError => parser'.hadError]_vars

\* the second statement with an error is over and synchronize() is about
\* to be called: each of the two reported one message, and the second one's
\* later errors (no expression, no ';') were suppressed
C17_Witness ==
  /\ Running("declaration")
  /\ Top.at = "end"
  /\ parser.panicMode
  /\ parser.hadError
  /\ Len(output) = 2
  /\ output[1].message = "Expect expression."
  /\ output[2].type = "TOKEN_ERROR"

\* C18: compile() returns NULL exactly if a compile error was reported;
\* interpret() then returns INTERPRET_COMPILE_ERROR with the value stack,
\* the frames and the globals as initVM() left them, and nothing has run.
C18_CompileError ==
  /\ [](result = "INTERPRET_COMPILE_ERROR" =>
          /\ pc = "done"
          /\ output # <<>>
          /\ vm.stackTop = 0
          /\ vm.stack = initVM.v.stack
          /\ vm.frames = <<>>
          /\ vm.globals = initVM.v.globals)
  /\ [][(pc = "compile" /\ pc' = "interpret")
          => (loc'.a = NULL <=> output' # <<>>)]_vars
  /\ [][(pc = "interpret" /\ loc.a = NULL)
          => result' = "INTERPRET_COMPILE_ERROR"]_vars
  /\ [][(pc = "interpret" /\ loc.a # NULL)
          => pc' = "newClosure" /\ result' = "none" /\ output = <<>>]_vars

\* interpret() has returned INTERPRET_COMPILE_ERROR after compile() had
\* allocated the script's function and reported "Expect expression."
C18_Witness ==
  /\ result = "INTERPRET_COMPILE_ERROR"
  /\ Len(heap) = Len(initVM.h) + 1
  /\ heap[Len(heap)].type = "OBJ_FUNCTION"
  /\ Len(output) = 1
  /\ output[1].message = "Expect expression."

\* the step on which case OP_INHERIT / case OP_METHOD reaches its `break`,
\* straight from the dispatch or from the return of the last adjustCapacity()
EndsOp(op) ==
  /\ Fetch(op) \/ (pc = "adjustCapacity" /\ loc.op = op)
  /\ pc' = "run"

\* C24: OP_INHERIT copies every method of the superclass (under the top)
\* into the subclass (top), leaves the superclass's table as it was and pops
\* the subclass only; OP_METHOD sets the name in the class under the closure
\* and in no other class; a superclass that is no class is a runtime error.
C24_Inherit ==
  [][/\ EndsOp(OP_INHERIT) =>
          LET from == AS_OBJ(peek(vm, 1))
              to == AS_OBJ(peek(vm, 0))
          IN  /\ \A key \in TableKeys(heap[from].methods) :
                    tableGet(heap', heap'[to].methods, key)
                      = [found |-> TRUE,
                         value |-> tableGet(heap, heap[from].methods, key).value]
              /\ heap'[from].methods = heap[from].methods
              /\ vm'.stackTop = vm.stackTop - 1
              /\ peek(vm', 0) = OBJ_VAL(from)
     /\ (Fetch(OP_INHERIT) /\ ~IS_CLASS(heap, peek(vm, 1)))
          => result' = "INTERPRET_RUNTIME_ERROR" /\ pc' = "done"
     /\ EndsOp(OP_METHOD) =>
          LET klass == AS_OBJ(peek(vm, 1))
              name == IF pc = "run" THEN READ_STRING ELSE loc.a
          IN  /\ tableGet(heap', heap'[klass].methods, name)
                   = [found |-> TRUE, value |-> peek(vm, 0)]
              /\ \A o \in 1..Len(heap) :
                    (o # klass /\ heap[o].type = "OBJ_CLASS")
                      => heap'[o].methods = heap[o].methods
              /\ vm'.stackTop = vm.stackTop - 1]_vars

\* a subclass has inherited a method and then overridden it: the two
\* classes hold different closures under the same name
C24_Witness ==
  \E a, b \in 1..Len(heap) :
    /\ heap[a].type = "OBJ_CLASS" /\ heap[b].type = "OBJ_CLASS" /\ a # b
    /\ \E key \in TableKeys(heap[a].methods) :
          /\ tableGet(heap, heap[b].methods, key).found
          /\ tableGet(heap, heap[b].methods, key).value
               # tableGet(heap, heap[a].methods, key).value
    /\ \E key \in TableKeys(heap[b].methods) :
          ~tableGet(heap, heap[a].methods, key).found

\* the members of a sequence
Members(seq) == {seq[i] : i \in 1..Len(seq)}

\* C27: closeUpvalues(last) closes exactly the open upvalues at or above
\* last: each gets the value of its slot in `closed` and points at it, the
\* ones below stay open and unchanged, in their order; OP_RETURN passes the
\* returning frame's slots and OP_CLOSE_UPVALUE stackTop - 1.
C27_CloseUpvalues ==
  [][(Fetch(OP_RETURN) \/ Fetch(OP_CLOSE_UPVALUE)) =>
       LET last == IF ByteAt(0) = OP_RETURN THEN frame.slots
                   ELSE vm.stackTop - 1
           open == Members(vm.openUpvalues)
           kept == {u \in open : heap[u].location < last}
       IN  /\ Members(vm'.openUpvalues) = kept
           /\ \E n \in 0..Len(vm.openUpvalues) :
                 vm'.openUpvalues
                   = SubSeq(vm.openUpvalues, n + 1, Len(vm.openUpvalues))
           /\ \A u \in open \ kept :
                 /\ heap'[u].location = CLOSED
                 /\ heap'[u].closed = vm.stack[heap[u].location + 1]
           /\ \A o \in 1..Len(heap) :
                 (heap[o].type = "OBJ_UPVALUE" /\ o \notin open \ kept)
                   => heap'[o] = heap[o]
           /\ Len(heap') = Len(heap)]_vars

\* an upvalue has been closed over a value while another one, lower on the
\* stack, is still open
C27_Witness ==
  /\ \E o \in 1..Len(heap) :
        /\ heap[o].type = "OBJ_UPVALUE"
        /\ heap[o].location = CLOSED
        /\ heap[o].closed # NIL_VAL
  /\ Len(vm.openUpvalues) > 0

\* case OP_GET_PROPERTY name on the receiver under the argCount arguments
\* (bindMethod() and newBoundMethod() run through) and then case OP_CALL
\* argCount with the same arguments above the property; v has frame->ip
\* after the instructions
GetPropertyThenCall(v, h, name, argCount, t) ==
  LET v0 == popN(v, argCount) IN
  IF ~IS_INSTANCE(h, peek(v0, 0)) THEN Err(v, h)
  ELSE LET instance == h[AS_OBJ(peek(v0, 0))]
           value == tableGet(h, instance.fields, name)
       IN  IF value.found
           THEN LET v1 == push(pop(v0), value.value)
                    v2 == [v1 EXCEPT !.stackTop = @ + argCount]
                IN  callValue(v2, h, peek(v2, argCount), argCount, t)
           ELSE LET b == bindMethod(v0, h, instance.klass, name, OP_GET_PROPERTY)
                IN  IF b.k = "error" THEN b
                    ELSE LET d  == newBoundMethodDone(b.v, b.h, b.l.a, OP_GET_PROPERTY)
                             v2 == [d.v EXCEPT !.stackTop = @ + argCount]
                         IN  callValue(v2, d.h, peek(v2, argCount), argCount, t)

\* the slots of the value stack in use
Slots(v) == SubSeq(v.stack, 1, v.stackTop)

\* C25: OP_INVOKE name argc leaves the value stack, the call frames and the
\* outcome (next instruction, runtime error, or the instantiation of a class
\* held in a field) that OP_GET_PROPERTY name followed by OP_CALL argc leave
\* on the same receiver and arguments, and allocates nothing.
C25_InvokeEquivalent ==
  [][Fetch(OP_INVOKE) =>
       /\ heap' = heap
       /\ \E t \in ClockValues :
            LET o == GetPropertyThenCall(Advance(vm, 3), heap, READ_STRING,
                                         ByteAt(2), t)
                v == IF o.k = "error" THEN resetStack(o.v) ELSE o.v
            IN  /\ pc' = (IF o.k = "error" THEN "done" ELSE o.k)
                /\ result' = (IF o.k = "error" THEN "INTERPRET_RUNTIME_ERROR"
                              ELSE result)
                /\ loc' = o.l
                /\ Slots(vm') = Slots(v)
                /\ vm'.frames = v.frames
                /\ vm'.globals = v.globals
                /\ vm'.openUpvalues = v.openUpvalues]_vars

\* a frame has just been entered by an OP_INVOKE whose slot 0 holds no
\* instance: a closure kept in a field of the receiver was called
C25_Witness ==
  /\ pc = "run"
  /\ frameCount >= 2
  /\ frame.ip = 0
  /\ LET caller == vm.frames[frameCount - 1]
     IN  /\ caller.ip >= 3
         /\ heap[heap[caller.closure].function].code[caller.ip - 2] = OP_INVOKE
  /\ ~IS_INSTANCE(heap, vm.stack[frame.slots + 1])

(***************************************************************************)
(* freeVM(), which main() calls once interpret() has returned.             *)
(***************************************************************************)
\* freeObjects: freeObject on every object of the list from position i on
RECURSIVE FreeObjectsFrom(_, _, _)
FreeObjectsFrom(h, objs, i) ==
  IF i > Len(objs) THEN h
  ELSE FreeObjectsFrom(freeObject(h, objs[i]), objs, i + 1)

\* freeTable on both tables, vm.initString = NULL, freeObjects()
FreeVM ==
  /\ pc = "done"
  /\ vm' = [vm EXCEPT !.globals = initTable, !.strings = initTable,
                      !.initString = NULL]
  /\ heap' = FreeObjectsFrom(heap, vm.objects, 1)
  /\ pc' = "freed"
  /\ UNCHANGED <<loc, gcPhase, collections, current, shadow, mem, result>>
  /\ UNCHANGED front

NextTeardown == Run \/ FreeVM

\* the executions without a collection, up to the return of freeVM()
SpecTeardown == Init /\ [][NextTeardown]_vars

\* C26: after freeVM every object that was on the object list, of every
\* kind, has been released, the globals and the intern table are empty and
\* vm.initString is NULL.
C26_FreeVM ==
  pc = "freed" =>
    /\ \A o \in OnList(vm) : heap[o].freed
    /\ vm.globals = initTable
    /\ vm.strings = initTable
    /\ vm.initString = NULL

\* the part of C26 that the code keeps: the five kinds freeObject has a case
\* for are released, and the tables and initString are cleared
C26_FreeVM_cases ==
  pc = "freed" =>
    /\ \A o \in OnList(vm) :
          heap[o].type \in {"OBJ_CLOSURE", "OBJ_STRING", "OBJ_FUNCTION",
                            "OBJ_NATIVE", "OBJ_UPVALUE"} => heap[o].freed
    /\ vm.globals = initTable
    /\ vm.strings = initTable
    /\ vm.initString = NULL

\* C28: the string that allocateString() has linked into vm.objects is not
\* freed by a collection that runs while tableSet() grows vm.strings for it:
\* when concatenate() ends, the string it pushes is on the object list, not
\* freed, and a key of vm.strings.
C28_NewStringSurvives ==
  [][(pc = "adjustCapacity" /\ loc.op = OP_ADD /\ pc' = "run") =>
       /\ peek(vm', 0) = OBJ_VAL(loc.a)
       /\ loc.a \in TableKeys(vm'.strings)
       /\ loc.a \in OnList(vm')
       /\ ~heap'[loc.a].freed]_vars

(***************************************************************************)
(* table.c on its own: the globals table of a fresh machine under every    *)
(* sequence of tableSet, tableDelete and tableGet calls with the keys      *)
(* "clock" (defined by initVM) and "b", "j", "r", "a", "g".  "b", "j",     *)
(* "r" and "clock" hash to bucket 5 of 8, "a" to 4, "g" to 6: their probe  *)
(* sequences overlap and wrap around; "j" and "clock" collide in 16        *)
(* buckets too.  With six buckets of 8 in use the next tableSet grows the  *)
(* table to 16.                                                            *)
(***************************************************************************)
KeyChars == <<<<98>>, <<106>>, <<114>>, <<97>>, <<103>>>>

\* copyString on KeyChars[i], KeyChars[i + 1], ...
RECURSIVE InternFrom(_, _)
InternFrom(st, i) ==
  IF i > Len(KeyChars) THEN st
  ELSE InternFrom(copyString(st.v, st.h, KeyChars[i]), i + 1)

TableImage == InternFrom(initVM, 1)

Keys == TableKeys(TableImage.v.strings) \ {TableImage.v.initString}

Values == {NUMBER_VAL(1), NUMBER_VAL(2)}

\* the map with key bound to value, and the map without key
MapSet(map, key, value) ==
  [k \in DOMAIN map \cup {key} |-> IF k = key THEN value ELSE map[k]]
MapDelete(map, key) == [k \in DOMAIN map \ {key} |-> map[k]]

InitTable ==
  /\ vm = TableImage.v
  /\ heap = TableImage.h
  /\ pc = "table"
  /\ loc = Loc0
  /\ gcPhase = "idle"
  /\ collections = 0
  /\ current = <<>>
  /\ shadow = [k \in TableKeys(TableImage.v.globals) |->
                 tableGet(TableImage.h, TableImage.v.globals, k).value]
  /\ mem = Mem0
  /\ result = "none"
  /\ source = <<>>
  /\ scanner = initScanner
  /\ parser = Parser0
  /\ control = <<>>
  /\ output = <<>>

\* tableSet(&vm.globals, key, value)
TableSet ==
  /\ pc = "table"
  /\ \E key \in Keys : \E value \in Values :
       /\ vm' = [vm EXCEPT !.globals = tableSet(heap, @, key, value).table]
       /\ shadow' = MapSet(shadow, key, value)
  /\ UNCHANGED <<heap, pc, loc, gcPhase, collections, current, mem, result>>
  /\ UNCHANGED front

\* tableDelete(&vm.globals, key)
TableDelete ==
  /\ pc = "table"
  /\ \E key \in Keys :
       /\ vm' = [vm EXCEPT !.globals = tableDelete(heap, @, key)]
       /\ shadow' = MapDelete(shadow, key)
  /\ UNCHANGED <<heap, pc, loc, gcPhase, collections, current, mem, result>>
  /\ UNCHANGED front

\* tableGet(&vm.globals, key, &value): nothing of the machine is written
TableGet ==
  /\ pc = "table"
  /\ \E key \in Keys : tableGet(heap, vm.globals, key).found \in BOOLEAN
  /\ UNCHANGED vars

NextTable == TableSet \/ TableDelete \/ TableGet

SpecTable == InitTable /\ [][NextTable]_vars

\* C23: after every sequence of tableSet, tableDelete and tableGet calls,
\* tableGet(k) finds the last value set for k if k was set and not deleted
\* since, and fails otherwise; the next tableSet of k returns true exactly
\* if k is absent.
C23_TableIsMap ==
  pc = "table" =>
    \A k \in Keys :
      /\ tableGet(heap, vm.globals, k).found <=> k \in DOMAIN shadow
      /\ k \in DOMAIN shadow
           => tableGet(heap, vm.globals, k).value = shadow[k]
      /\ \A value \in Values :
           tableSet(heap, vm.globals, k, value).isNewKey
             <=> k \notin DOMAIN shadow

\* the table has grown to 16 buckets with a tombstone left in it, two keys
\* that collide are both in it, and a key lies in a bucket that is not the
\* one its hash names
C23_Witness ==
  /\ pc = "table"
  /\ vm.globals.capacity = 16
  /\ \E i \in 1..16 : vm.globals.entries[i] = Tombstone
  /\ \E a, b \in DOMAIN shadow :
        /\ a # b
        /\ HashMod(heap[a].hash, 16) = HashMod(heap[b].hash, 16)
  /\ \E i \in 1..16 :
        /\ vm.globals.entries[i].key # NULL
        /\ HashMod(heap[vm.globals.entries[i].key].hash, 16) # i - 1
  /\ shadow # <<>>

(***************************************************************************)
(* memory.c's accounting on its own: the requests that reach reallocate()  *)
(* from the program and from inside a collection, in a build with and in   *)
(* one without DEBUG_STRESS_GC.  A request is a pair of sizes; what the    *)
(* blocks hold plays no part.  The byte counts are size_t; the sizes here  *)
(* stay far below its range, so the sums are the integers'.                *)
(***************************************************************************)
\* the sizes a request may name, in bytes
Sizes == {0, 256 * 1024, 512 * 1024}
\* vm.bytesAllocated is kept at or below this
MaxBytes == 2097152
\* objects marked in one collection
MaxGray == 9

GC_HEAP_GROW_FACTOR == 2

\* FREE(type, pointer) and FREE_ARRAY(type, pointer, oldCount) of a block of
\* size bytes
FreeRequest_growing(size) == [oldSize |-> 0, newSize |-> size]

FreeRequest(size) == [oldSize |-> size, newSize |-> 0]

\* collectGarbage() entered from the place `at` of reallocate()
EnterCollect(m, at) ==
  [m EXCEPT !.at = at, !.phase = "markRoots", !.depth = @ + 1]

\* reallocate() with the test of newSize > oldSize left out
reallocate_always(m, request, caller) ==
  With([m EXCEPT !.bytesAllocated = @ + request.newSize - request.oldSize,
                 !.request = request],
       LAMBDA m1 :
         IF m1.stress THEN EnterCollect(m1, "stress")
         ELSE IF m1.bytesAllocated > m1.nextGC THEN EnterCollect(m1, "threshold")
         ELSE [m1 EXCEPT !.at = caller])

\* reallocate() up to its first call of collectGarbage(), or to its return
\* to the caller when it makes none
reallocate(m, request, caller) ==
  With([m EXCEPT !.bytesAllocated = @ + request.newSize - request.oldSize,
                 !.request = request],
       LAMBDA m1 :
         IF request.newSize > request.oldSize
         THEN IF m1.stress THEN EnterCollect(m1, "stress")
              ELSE IF m1.bytesAllocated > m1.nextGC
                   THEN EnterCollect(m1, "threshold")
                   ELSE [m1 EXCEPT !.at = caller]
         ELSE [m1 EXCEPT !.at = caller])

InitMemory ==
  /\ \E stress \in BOOLEAN : mem = [Mem0 EXCEPT !.stress = stress]
  /\ vm = initVM_fields
  /\ heap = <<>>
  /\ pc = "memory"
  /\ loc = Loc0
  /\ gcPhase = "idle"
  /\ collections = 0
  /\ current = <<>>
  /\ shadow = <<>>
  /\ result = "none"
  /\ source = <<>>
  /\ scanner = initScanner
  /\ parser = Parser0
  /\ control = <<>>
  /\ output = <<>>

Collecting(phases) == pc = "memory" /\ mem.depth = 1 /\ mem.phase \in phases

\* the program calls reallocate()
Reallocate ==
  /\ pc = "memory"
  /\ mem.at = "idle"
  /\ \E oldSize \in Sizes : \E newSize \in Sizes :
       /\ oldSize <= mem.bytesAllocated
       /\ mem.bytesAllocated + newSize - oldSize <= MaxBytes
       /\ mem' = reallocate(mem, [oldSize |-> oldSize, newSize |-> newSize], "idle")

\* the `if (vm.bytesAllocated > vm.nextGC)` that follows the collection of a
\* DEBUG_STRESS_GC build
ReallocateTest ==
  /\ pc = "memory"
  /\ mem.at = "test"
  /\ mem' = IF mem.bytesAllocated > mem.nextGC THEN EnterCollect(mem, "threshold")
            ELSE [mem EXCEPT !.at = "idle"]

\* markObject() on an unmarked object: the gray stack grows through
\* realloc(), not through reallocate()
MarkObject ==
  /\ Collecting({"markRoots", "traceReferences"})
  /\ mem.grayCount < MaxGray
  /\ mem' = [mem EXCEPT
               !.grayCapacity = IF @ < mem.grayCount + 1 THEN GROW_CAPACITY(@) ELSE @,
               !.grayCount = @ + 1]

\* markRoots() returns
MarkRootsReturns ==
  /\ Collecting({"markRoots"})
  /\ mem' = [mem EXCEPT !.phase = "traceReferences"]

\* traceReferences() pops an object to blacken it, or returns; then
\* tableRemoveWhite(), which allocates nothing
TraceStep ==
  /\ Collecting({"traceReferences"})
  /\ mem' = IF mem.grayCount > 0 THEN [mem EXCEPT !.grayCount = @ - 1]
            ELSE [mem EXCEPT !.phase = "sweep"]

\* sweep() hands an unmarked object to freeObject()
SweepFree ==
  /\ Collecting({"sweep"})
  /\ \E size \in Sizes \ {0} :
       /\ size <= mem.bytesAllocated
       /\ mem' = reallocate(mem, FreeRequest(size), mem.at)

\* sweep() returns, collectGarbage() sets vm.nextGC and returns into
\* reallocate()
CollectReturns ==
  /\ Collecting({"sweep"})
  /\ mem' = [mem EXCEPT !.nextGC = mem.bytesAllocated * GC_HEAP_GROW_FACTOR,
                        !.phase = "none",
                        !.depth = @ - 1,
                        !.at = IF @ = "stress" THEN "test" ELSE "idle"]

NextMemory ==
  /\ \/ Reallocate \/ ReallocateTest \/ MarkObject \/ MarkRootsReturns
     \/ TraceStep \/ SweepFree \/ CollectReturns
  /\ UNCHANGED <<vm, heap, pc, loc, gcPhase, collections, current, shadow, result>>
  /\ UNCHANGED front

SpecMemory == InitMemory /\ [][NextMemory]_vars

\* C29: collectGarbage() is entered only for a request with newSize >
\* oldSize and, in a build without DEBUG_STRESS_GC, only when
\* vm.bytesAllocated, the request counted in, exceeds vm.nextGC; when it
\* returns vm.nextGC is twice the vm.bytesAllocated that sweep() left.
C29_CollectTrigger ==
  [][pc = "memory" =>
       /\ mem'.depth > mem.depth =>
            /\ mem'.request.newSize > mem'.request.oldSize
            /\ mem'.bytesAllocated > mem'.nextGC \/ mem.stress
            /\ mem'.nextGC = mem.nextGC
       /\ (mem.at = "idle" /\ mem'.request.newSize > mem'.request.oldSize
             /\ ~mem.stress /\ mem'.bytesAllocated > mem.nextGC)
            => mem'.depth = 1
       /\ mem'.depth < mem.depth =>
            /\ mem'.nextGC = 2 * mem.bytesAllocated
            /\ mem'.bytesAllocated = mem.bytesAllocated
       /\ mem'.depth = mem.depth => mem'.nextGC = mem.nextGC]_vars

\* a build without DEBUG_STRESS_GC has collected (the count had passed 1
\* MiB) and freed part of the blocks: the next collection is at twice what
\* was left
C29_Witness ==
  /\ pc = "memory"
  /\ ~mem.stress
  /\ mem.at = "idle"
  /\ mem.bytesAllocated > 0
  /\ mem.nextGC = 2 * mem.bytesAllocated
  /\ mem.nextGC # 1024 * 1024
  /\ mem.nextGC < 2 * 1024 * 1024

\* C30: while collectGarbage() runs no request with newSize > oldSize
\* reaches reallocate(), so collectGarbage() is not entered again before it
\* has returned; the gray stack grows without a call of reallocate().
C30_NotReentrant ==
  /\ [](pc = "memory" => mem.depth <= 1)
  /\ [][(pc = "memory" /\ mem.depth = 1 /\ mem'.depth = 1) =>
          /\ (mem'.request # mem.request
                \/ mem'.bytesAllocated # mem.bytesAllocated)
               => mem'.request.newSize <= mem'.request.oldSize
          /\ mem'.grayCapacity # mem.grayCapacity
               => mem'.request = mem.request
                    /\ mem'.bytesAllocated = mem.bytesAllocated]_vars

\* a collection is sweeping after its gray stack has grown twice, and part
\* of the blocks has been freed through reallocate()
C30_Witness ==
  /\ pc = "memory"
  /\ mem.depth = 1
  /\ mem.phase = "sweep"
  /\ mem.grayCapacity = 16
  /\ mem.request.newSize = 0
  /\ mem.request.oldSize > 0

(***************************************************************************)
(* `and` and `or`: interpret(source) from its call of compile() to its     *)
(* return, for the sources                                                 *)
(*     var c ; var x = A and ( c = B ) ;     var x = A and B or C ;        *)
(*     var c ; var x = A or ( c = B ) ;      var x = A or B and C ;        *)
(* with every choice of the operands among nil, false, true, 1 and "s",    *)
(* and for the programs of Seeds.  `shadow` keeps what the source was      *)
(* built from.  No collection starts.                                      *)
(***************************************************************************)
LogicWords ==
  Words \o << <<110, 105, 108>>,   \* 28: nil
              <<102, 97, 108, 115, 101>>,   \* 29: false
              <<116, 114, 117, 101>>,   \* 30: true
              <<99>>,   \* 31: c
              <<120>> >>   \* 32: x

RECURSIVE Join(_, _)
Join(words, ws) ==
  IF ws = <<>> THEN <<>>
  ELSE IF Len(ws) = 1 THEN words[ws[1]]
  ELSE words[ws[1]] \o <<32>> \o Join(words, Tail(ws))

\* nil, false, true, 1, "s"
Operands == {28, 29, 30, 13, 14}

LogicShapes ==
  [t : {"guard"}, op : {10, 11}, a : Operands, b : Operands, c : {28}]
  \cup [t : {"and-or", "or-and"}, op : {10}, a : Operands, b : Operands,
        c : Operands]
  \cup [t : {"seed"}, op : {10}, a : Seeds, b : {28}, c : {28}]

LogicSource(shape) ==
  CASE shape.t = "guard" ->
         Join(LogicWords, <<2, 31, 15, 2, 32, 16, shape.a, shape.op, 19, 31, 16,
                            shape.b, 20, 15>>)
    [] shape.t = "and-or" ->
         Join(LogicWords, <<2, 32, 16, shape.a, 10, shape.b, 11, shape.c, 15>>)
    [] shape.t = "or-and" ->
         Join(LogicWords, <<2, 32, 16, shape.a, 11, shape.b, 10, shape.c, 15>>)
    [] shape.t = "seed" -> Join(LogicWords, shape.a)

InitLogic ==
  /\ vm = initVM.v
  /\ heap = initVM.h
  /\ pc = "compile"
  /\ loc = [Loc0 EXCEPT !.op = COMPILE]
  /\ gcPhase = "idle"
  /\ collections = 0
  /\ current = <<>>
  /\ shadow \in LogicShapes
  /\ mem = Mem0
  /\ result = "none"
  /\ source = LogicSource(shadow)
  /\ scanner = initScanner
  /\ parser = Parser0
  /\ control = <<[fn |-> "compile", at |-> "start", compiler |-> Compiler0]>>
  /\ output = <<>>

\* the instructions these sources compile to
RunScript ==
  \/ OpConstant \/ OpNil \/ OpTrue \/ OpFalse \/ OpPop
  \/ OpGetLocal \/ OpGetGlobal \/ OpDefineGlobal \/ OpSetGlobal \/ OpSetLocal
  \/ OpAdd \/ OpNegate \/ OpPrint \/ OpJump \/ OpJumpIfFalse \/ OpLoop
  \/ OpReturn \/ NewClosureReturns

NextLogic == NextCompile \/ RunScript

SpecLogic == InitLogic /\ [][NextLogic]_vars

\* the value a literal of the source denotes
Denotes(value, word) ==
  CASE word = 28 -> value = NIL_VAL
    [] word = 29 -> value = BOOL_VAL(FALSE)
    [] word = 30 -> value = BOOL_VAL(TRUE)
    [] word = 13 -> value = NUMBER_VAL(1)
    [] word = 14 -> IS_STRING(heap, value) /\ heap[AS_OBJ(value)].chars = <<115>>

\* Lox's truth: everything but nil and false
Truthy(word) == word \notin {28, 29}

And(a, b) == IF Truthy(a) THEN b ELSE a
Or(a, b) == IF Truthy(a) THEN a ELSE b

\* the value of the global variable with this name, NIL_VAL if there is none
Global(chars) ==
  With(tableFindString(heap, vm.strings, chars, hashString(chars)), LAMBDA name :
    IF name = NULL THEN NIL_VAL ELSE tableGet(heap, vm.globals, name).value)

\* run() is about to execute the OP_DEFINE_GLOBAL of `var x = ...`
DefinesX ==
  /\ pc = "run"
  /\ ByteAt(0) = OP_DEFINE_GLOBAL
  /\ heap[READ_STRING].chars = <<120>>

\* what x is to be, and what c is to be, by the operands of the source
LogicValue ==
  CASE shadow.t = "guard" ->
         IF shadow.op = 10 THEN And(shadow.a, shadow.b) ELSE Or(shadow.a, shadow.b)
    [] shadow.t = "and-or" -> Or(And(shadow.a, shadow.b), shadow.c)
    [] shadow.t = "or-and" -> Or(shadow.a, And(shadow.b, shadow.c))

GuardedValue ==
  IF (shadow.op = 10) = Truthy(shadow.a) THEN shadow.b ELSE 28

\* C21: the code compiled for `a and b` leaves b if a is truthy and else a,
\* that for `a or b` leaves a if a is truthy and else b: the operand itself,
\* one value on top of what the stack held before, and with b not evaluated
\* when a decides.  With the statement begun on a stack of one slot, the
\* initializer of x has left two when OP_DEFINE_GLOBAL is reached, the top
\* one the deciding operand; and at the end x holds it, and c holds b
\* exactly if the assignment to c in the right operand was evaluated.
C21_AndOr ==
  shadow.t \in {"guard", "and-or", "or-and"} =>
    /\ (pc = "run" /\ frame.ip = 0) => vm.stackTop = 1
    /\ DefinesX => vm.stackTop = 2 /\ Denotes(peek(vm, 0), LogicValue)
    /\ pc = "done" =>
         /\ result = "INTERPRET_OK"
         /\ output = <<>>
         /\ Denotes(Global(<<120>>), LogicValue)
         /\ shadow.t = "guard" => Denotes(Global(<<99>>), GuardedValue)

\* `var c ; var x = 1 and ( c = "s" ) ;` and `var c ; var x = nil or
\* ( c = "s" ) ;` have run to the end with "s" in x and in c, as have
\* `... false and ( c = 1 ) ;` and `... "s" or ( c = 1 ) ;` with c still nil
C21_Witness ==
  /\ pc = "done"
  /\ shadow.t = "guard"
  /\ \/ shadow.op = 10 /\ shadow.a = 13 /\ shadow.b = 14
     \/ shadow.op = 11 /\ shadow.a = 28 /\ shadow.b = 14
     \/ shadow.op = 10 /\ shadow.a = 29 /\ shadow.b = 13
     \/ shadow.op = 11 /\ shadow.a = 14 /\ shadow.b = 13
  /\ Denotes(Global(<<120>>), LogicValue)
  /\ Global(<<99>>) = (IF shadow.a \in {13, 28} THEN Global(<<120>>) ELSE NIL_VAL)

(***************************************************************************)
(* The jump instructions on their own: emitJump(), patchJump(), emitLoop() *)
(* and emitByte() called in the orders the compiler's functions call them  *)
(* in, on a chunk that grows beyond what an offset of 16 bits spans.  A    *)
(* function that calls emitJump() keeps the offset it returns in a local   *)
(* variable until it calls patchJump(), one that compiles a loop keeps     *)
(* currentChunk()->count as loopStart until it calls emitLoop(): `shadow`  *)
(* is the record of these,                                                 *)
(*     jumps    the offsets returned by emitJump() and not yet patched     *)
(*     starts   the loop starts taken and not yet looped to                *)
(*     emitted  [at, to] for every jump instruction in the chunk: the      *)
(*              offset of its opcode and the offset where the compiler     *)
(*              was when it fixed the target, -1 before                    *)
(*     calls    how many of these calls there have been                    *)
(* A body is the code of a long run of statements, written here in one     *)
(* step as that many OP_NIL.  The parser is in any of the states it can    *)
(* be in between two statements.                                           *)
(***************************************************************************)
MaxCalls == 4
Bodies == {65532, 65535}
MaxCode == 65535 + 12

InitJumps ==
  /\ vm = initVM_fields
  /\ heap = <<ObjFunction>>
  /\ pc = "emit"
  /\ loc = [Loc0 EXCEPT !.op = COMPILE]
  /\ gcPhase = "idle"
  /\ collections = 0
  /\ current = <<>>
  /\ shadow = [jumps |-> {}, starts |-> {}, emitted |-> {}, calls |-> 0]
  /\ mem = Mem0
  /\ result = "none"
  /\ source = <<>>
  /\ scanner = initScanner
  /\ \E flags \in {<<FALSE, FALSE>>, <<TRUE, FALSE>>, <<TRUE, TRUE>>} :
       parser = [Parser0 EXCEPT !.hadError = flags[1], !.panicMode = flags[2]]
  /\ control = <<[fn |-> "compile", at |-> "loop",
                  compiler |-> initCompiler("TYPE_SCRIPT", 1)]>>
  /\ output = <<>>

\* the compiler goes on from S with the record sh of its local variables
Emit(S, sh) ==
  /\ pc = "emit"
  /\ shadow.calls < MaxCalls
  /\ Count(S) <= MaxCode
  /\ heap' = S.h
  /\ parser' = S.p
  /\ output' = S.out
  /\ shadow' = [sh EXCEPT !.calls = @ + 1]
  /\ UNCHANGED <<vm, pc, loc, gcPhase, collections, current, mem, result, source,
                 scanner, control>>

EmitByte == Emit(emitByte(Bundle, OP_NIL), shadow)

EmitBody ==
  \E n \in Bodies :
    Emit([Bundle EXCEPT !.h[1].code = @ \o [i \in 1..n |-> OP_NIL]], shadow)

EmitJump ==
  \E instruction \in {OP_JUMP, OP_JUMP_IF_FALSE} :
    \E jump \in {emitJump(Bundle, instruction)} :
      /\ Cardinality(shadow.jumps) < 2
      /\ Emit(jump.S,
              [shadow EXCEPT !.jumps = @ \cup {jump.arg},
                             !.emitted = @ \cup {[at |-> jump.arg - 1, to |-> -1]}])

PatchJump ==
  \E offset \in shadow.jumps :
    Emit(patchJump(Bundle, offset),
         [shadow EXCEPT !.jumps = @ \ {offset},
                        !.emitted = (@ \ {[at |-> offset - 1, to |-> -1]})
                                      \cup {[at |-> offset - 1,
                                             to |-> Count(Bundle)]}])

LoopStart ==
  /\ Cardinality(shadow.starts) < 2
  /\ Count(Bundle) \notin shadow.starts
  /\ Emit(Bundle, [shadow EXCEPT !.starts = @ \cup {Count(Bundle)}])

EmitLoop ==
  \E loopStart \in shadow.starts :
    Emit(emitLoop(Bundle, loopStart),
         [shadow EXCEPT !.starts = @ \ {loopStart},
                        !.emitted = @ \cup {[at |-> Count(Bundle),
                                             to |-> loopStart]}])

\* endCompiler() and the return of compile(), every jump patched
EndCompiler ==
  /\ pc = "emit"
  /\ shadow.jumps = {}
  /\ \E S \in {EmitAll(Bundle, emitReturn(Bundle.c.type))} :
       /\ heap' = S.h
       /\ pc' = "emitted"
       /\ loc' = [loc EXCEPT !.a = IF S.p.hadError THEN NULL ELSE S.c.function]
  /\ UNCHANGED <<vm, gcPhase, collections, current, shadow, mem, result, front>>

NextJumps ==
  \/ EmitByte
  \/ EmitBody
  \/ EmitJump
  \/ PatchJump
  \/ LoopStart
  \/ EmitLoop
  \/ EndCompiler

SpecJumps == InitJumps /\ [][NextJumps]_vars

\* where run() goes on after the jump instruction at offset `at` of the
\* chunk, the jump taken (vm.c 523-537)
Target(code, at) ==
  With(code[at + 2] * 256 + code[at + 3], LAMBDA offset :
    IF code[at + 1] = OP_LOOP THEN at + 3 - offset ELSE at + 3 + offset)

\* C22: every jump whose target the compiler has fixed either goes exactly
\* there - a forward jump to the offset at which the next instruction was
\* emitted after patchJump(), a loop to its loopStart - or an error has
\* been reported; so in a chunk that compile() returns every jump is exact
\* and lands inside the chunk, and a jump whose distance does not fit in 16
\* bits makes compile() return NULL.
C22_JumpTargets ==
  pc \in {"emit", "emitted"} =>
    /\ \A jump \in shadow.emitted :
         jump.to # -1 =>
           /\ ~parser.hadError =>
                /\ Target(heap[1].code, jump.at) = jump.to
                /\ jump.to >= 0
                /\ jump.to <= Len(heap[1].code)
           /\ (jump.to - (jump.at + 3) > UINT16_MAX
               \/ (jump.at + 3) - jump.to > UINT16_MAX) => parser.hadError
    /\ pc = "emitted" =>
         /\ loc.a = NULL <=> parser.hadError
         /\ loc.a # NULL =>
              \A jump \in shadow.emitted :
                /\ Target(heap[1].code, jump.at) = jump.to
                /\ jump.to < Len(heap[1].code)
                /\ heap[1].code[jump.to + 1]
                     \in {OP_NIL, OP_JUMP, OP_JUMP_IF_FALSE, OP_LOOP}

\* patchJump() has just fixed a forward jump that spans exactly 65535
\* bytes, the most an offset holds: no error, and it goes where the next
\* instruction will be emitted
C22_Witness ==
  /\ pc = "emit"
  /\ ~parser.hadError
  /\ shadow.jumps = {}
  /\ \E jump \in shadow.emitted :
       /\ heap[1].code[jump.at + 1] = OP_JUMP_IF_FALSE
       /\ jump.to = Len(heap[1].code)
       /\ jump.to - (jump.at + 3) = UINT16_MAX
       /\ heap[1].code[jump.at + 2] = 255
       /\ heap[1].code[jump.at + 3] = 255
       /\ Target(heap[1].code, jump.at) = jump.to

\* compile() has returned NULL for a chunk in which a loop of 65536 bytes
\* was given the offset 0 and a jump over 65536 bytes likewise
C22_Overflow ==
  /\ pc = "emitted"
  /\ loc.a = NULL
  /\ \E jump \in shadow.emitted :
       /\ heap[1].code[jump.at + 1] = OP_LOOP
       /\ (jump.at + 3) - jump.to = UINT16_MAX + 1
       /\ Target(heap[1].code, jump.at) = jump.at + 3

(***************************************************************************)
(* Local variables: compile() on the sources                               *)
(*     { var N1 [= I1] ; var N2 [= I2] ; print U ; }                       *)
(*     { var N1 [= I1] ; { var N2 [= I2] ; print U ; } }                   *)
(* with the names N1, N2 among a and c, the initializers absent, 1, a or   *)
(* c, and U among a, c and x; and on the programs of Seeds.                *)
(***************************************************************************)
LocalShapes ==
  [t : {"locals"}, inner : BOOLEAN, n1 : {12, 31}, i1 : {0, 13, 12, 31},
   n2 : {12, 31}, i2 : {0, 13, 12, 31}, u : {12, 31, 32}]
  \cup [t : {"seed"}, inner : {FALSE}, n1 : Seeds, i1 : {0}, n2 : {12},
        i2 : {0}, u : {12}]

\* `var name ;` or `var name = init ;`
VarWords(name, init) ==
  IF init = 0 THEN <<2, name, 15>> ELSE <<2, name, 16, init, 15>>

LocalSource(shape) ==
  IF shape.t = "seed" THEN Join(LogicWords, shape.n1)
  ELSE Join(LogicWords,
            <<17>> \o VarWords(shape.n1, shape.i1)
                   \o (IF shape.inner THEN <<17>> ELSE <<>>)
                   \o VarWords(shape.n2, shape.i2)
                   \o <<1, shape.u, 15>>
                   \o (IF shape.inner THEN <<18>> ELSE <<>>)
                   \o <<18>>)

InitLocals ==
  /\ vm = initVM.v
  /\ heap = initVM.h
  /\ pc = "compile"
  /\ loc = [Loc0 EXCEPT !.op = COMPILE]
  /\ gcPhase = "idle"
  /\ collections = 0
  /\ current = <<>>
  /\ shadow \in LocalShapes
  /\ mem = Mem0
  /\ result = "none"
  /\ source = LocalSource(shadow)
  /\ scanner = initScanner
  /\ parser = Parser0
  /\ control = <<[fn |-> "compile", at |-> "start", compiler |-> Compiler0]>>
  /\ output = <<>>

SpecLocals == InitLocals /\ [][NextCompile]_vars

\* the messages of the errors reported so far
Messages == [i \in DOMAIN output |-> output[i].message]

\* the two declarations of the shape are in one scope and have one name
SameScopeTwice(shape) == ~shape.inner /\ shape.n1 = shape.n2

\* what compile() is to report for the shape: the first declaration read
\* in its own initializer; then the second declared twice in one scope, or
\* else read in its own initializer (a parser in panic mode reports nothing
\* until the end of the statement)
Reports(shape) ==
  (IF shape.i1 = shape.n1
   THEN <<"Can't read local variable in its own initializer.">> ELSE <<>>)
  \o (IF SameScopeTwice(shape)
      THEN <<"Already variable with this name in this scope.">>
      ELSE IF shape.i2 = shape.n2
           THEN <<"Can't read local variable in its own initializer.">>
           ELSE <<>>)

\* the instruction `print U ;` is to begin with: the local declared last
\* under the name, slot 2 or slot 1, or the global
ReadOf(shape) ==
  IF shape.u = shape.n2 THEN <<OP_GET_LOCAL, 2>>
  ELSE IF shape.u = shape.n1 THEN <<OP_GET_LOCAL, 1>>
  ELSE <<OP_GET_GLOBAL, 0>>

\* compile() has read the whole source and is about to call endCompiler()
AtEnd ==
  /\ Running("compile")
  /\ Top.at = "loop"
  /\ parser.current.type = "TOKEN_EOF"

\* a varDeclaration() of a local scope is compiling its initializer
InInitializer ==
  \E i \in DOMAIN control :
    /\ control[i].fn = "varDeclaration"
    /\ control[i].at = "end"
    /\ Bundle.c.scopeDepth > 0

\* C31: two locals of one name in one scope are a compile error, while a
\* local may have the name of one of an enclosing scope; a local is at
\* depth -1 exactly while its initializer is compiled, and it is then the
\* last local; and for the block sources the errors reported are exactly
\* those of a name declared twice in a scope and of a local read in its
\* own initializer, and `print U ;` reads the innermost local of the name.
C31_LocalScopes ==
  (pc = "compile" /\ control # <<>> /\ Top.at # "start" /\ control[1].at # "start") =>
    /\ \A i, j \in DOMAIN Bundle.c.locals :
         (/\ i < j
          /\ Bundle.c.locals[i].name = Bundle.c.locals[j].name
          /\ Bundle.c.locals[i].depth # -1
          /\ \/ Bundle.c.locals[j].depth = Bundle.c.locals[i].depth
             \/ /\ Bundle.c.locals[j].depth = -1
                /\ Bundle.c.locals[i].depth = Bundle.c.scopeDepth)
           => parser.hadError
    /\ \A i \in DOMAIN Bundle.c.locals :
         Bundle.c.locals[i].depth = -1 =>
           /\ i = Len(Bundle.c.locals)
           /\ InInitializer
    /\ (InInitializer /\ Top.fn # "varDeclaration") =>
         Bundle.c.locals[Len(Bundle.c.locals)].depth = -1
    /\ (AtEnd /\ shadow.t = "locals") =>
         /\ Messages = Reports(shadow)
         /\ parser.hadError <=> Reports(shadow) # <<>>
         /\ Len(Bundle.c.locals) = 1
         /\ With(currentChunk(Bundle).code, LAMBDA code :
              /\ SubSeq(code, Len(code) - 4, Len(code)) =
                   <<ReadOf(shadow)[1], code[Len(code) - 3], OP_PRINT, OP_POP, OP_POP>>
              /\ ReadOf(shadow)[1] = OP_GET_LOCAL
                   => code[Len(code) - 3] = ReadOf(shadow)[2])

\* compile() has read `{ var a = 1 ; { var a = a ; print a ; } }`: the
\* inner a is accepted, its initializer is the one error, and print reads
\* slot 2
C31_Witness ==
  /\ AtEnd
  /\ shadow = [t |-> "locals", inner |-> TRUE, n1 |-> 12, i1 |-> 13, n2 |-> 12,
               i2 |-> 12, u |-> 12]
  /\ Messages = <<"Can't read local variable in its own initializer.">>
  /\ currentChunk(Bundle).code[Len(currentChunk(Bundle).code) - 3] = 2

(***************************************************************************)
(* The height of the value stack at the statements' ends: interpret() on   *)
(* programs in which every statement stands between two statements         *)
(* `print "k" ;`, k the number of locals in scope there.  C1 is nil or 1   *)
(* and C2 false or true, so that each branch is taken and each loop runs   *)
(* no, one or two times (or for ever).                                     *)
(***************************************************************************)
StackWords ==
  LogicWords \o << <<34, 48, 34>>,   \* 33: "0"
                   <<34, 49, 34>>,   \* 34: "1"
                   <<34, 50, 34>>,   \* 35: "2"
                   <<34, 51, 34>>,   \* 36: "3"
                   <<100>>,   \* 37: d
                   <<101>> >>   \* 38: e

\* print "k" ;
M(k) == <<1, 33 + k, 15>>

StackProgram(p, c1, c2) ==
  CASE p = 1 ->
         \* var c = C1 ; M0 if ( c ) M0 M0 if ( c ) M0 else M0 M0 c ; M0
         <<2, 31, 16, c1, 15>> \o M(0) \o <<4, 19, 31, 20>> \o M(0) \o M(0)
           \o <<4, 19, 31, 20>> \o M(0) \o <<5>> \o M(0) \o M(0)
           \o <<31, 15>> \o M(0)
    [] p = 2 ->
         \* var c = C1 ; var d = C2 ; M0 while ( c ) { M0 c = d ; d = nil ; M0 } M0
         <<2, 31, 16, c1, 15, 2, 37, 16, c2, 15>> \o M(0) \o <<6, 19, 31, 20, 17>>
           \o M(0) \o <<31, 16, 37, 15, 37, 16, 28, 15>> \o M(0) \o <<18>> \o M(0)
    [] p = 3 ->
         \* var d = C2 ; var e ; M0
         \* for ( var x = C1 ; x ; x = e ) { M1 e = d ; d = nil ; var a ; M2 } M0
         <<2, 37, 16, c2, 15, 2, 38, 15>> \o M(0)
           \o <<7, 19, 2, 32, 16, c1, 15, 32, 15, 32, 16, 38, 20, 17>> \o M(1)
           \o <<38, 16, 37, 15, 37, 16, 28, 15, 2, 12, 15>> \o M(2) \o <<18>> \o M(0)
    [] p = 4 ->
         \* var c = C1 ; M0 for ( ; c ; ) c = nil ; M0 for ( ; ; c = C2 ) { M0 }
         <<2, 31, 16, c1, 15>> \o M(0) \o <<7, 19, 15, 31, 15, 20, 31, 16, 28, 15>>
           \o M(0) \o <<7, 19, 15, 15, 31, 16, c2, 20, 17>> \o M(0) \o <<18>>
    [] p = 5 ->
         \* { var a = C1 ; M1 { var c = a ; var x ; M3 a = c ; } M1
         \*   if ( a ) { var c ; M2 } else M1 M1
         \*   while ( a ) { var c = C2 ; M2 a = nil ; } M1 } M0
         <<17, 2, 12, 16, c1, 15>> \o M(1)
           \o <<17, 2, 31, 16, 12, 15, 2, 32, 15>> \o M(3) \o <<12, 16, 31, 15, 18>>
           \o M(1) \o <<4, 19, 12, 20, 17, 2, 31, 15>> \o M(2) \o <<18, 5>> \o M(1)
           \o M(1) \o <<6, 19, 12, 20, 17, 2, 31, 16, c2, 15>> \o M(2)
           \o <<12, 16, 28, 15, 18>> \o M(1) \o <<18>> \o M(0)
    [] p = 6 ->
         \* { var a ; M1 for ( var c = C1 ; c ; c = nil ) M2
         \*   M1 for ( var c = C2 ; c ; ) { var x ; M3 c = nil ; } M1 } M0
         <<17, 2, 12, 15>> \o M(1)
           \o <<7, 19, 2, 31, 16, c1, 15, 31, 15, 31, 16, 28, 20>> \o M(2) \o M(1)
           \o <<7, 19, 2, 31, 16, c2, 15, 31, 15, 20, 17, 2, 32, 15>> \o M(3)
           \o <<31, 16, 28, 15, 18>> \o M(1) \o <<18>> \o M(0)

StackShapes ==
  [t : {"stack"}, p : 1..6, c1 : {28, 13}, c2 : {29, 30}]
  \cup [t : {"seed"}, p : Seeds, c1 : {28}, c2 : {28}]

StackSource(shape) ==
  IF shape.t = "seed" THEN Join(StackWords, shape.p)
  ELSE Join(StackWords, StackProgram(shape.p, shape.c1, shape.c2))

InitStack ==
  /\ vm = initVM.v
  /\ heap = initVM.h
  /\ pc = "compile"
  /\ loc = [Loc0 EXCEPT !.op = COMPILE]
  /\ gcPhase = "idle"
  /\ collections = 0
  /\ current = <<>>
  /\ shadow \in StackShapes
  /\ mem = Mem0
  /\ result = "none"
  /\ source = StackSource(shadow)
  /\ scanner = initScanner
  /\ parser = Parser0
  /\ control = <<[fn |-> "compile", at |-> "start", compiler |-> Compiler0]>>
  /\ output = <<>>

SpecStack == InitStack /\ [][NextLogic]_vars

\* run() is about to execute `print "k" ;`: the k of it, else -1
Marker ==
  IF pc = "run" /\ ByteAt(0) = OP_CONSTANT /\ IS_STRING(heap, READ_CONSTANT)
  THEN With(heap[READ_STRING].chars, LAMBDA chars :
         IF Len(chars) = 1 /\ chars[1] \in 48..51 THEN chars[1] - 48 ELSE -1)
  ELSE -1

\* the values on the stack above the frame's slot 0
Height == vm.stackTop - frame.slots - 1

STACK_MAX == FRAMES_MAX * 256

\* the depths of nesting explored besides the one that fills the stack
MaxDepth == 12

Depths == 0..MaxDepth \cup {STACK_MAX - 1}

\* print nil == ( nil == ( ... ( nil ) ... ) ) ;   with d comparisons: what
\* compile() makes of it, each operand pushed before the first comparison
Program_Deep(d) ==
  <<[name |-> <<>>, arity |-> 0, upvalueCount |-> 0,
     code |-> [i \in 1..(2 * d + 4) |->
                 IF i <= d + 1 THEN OP_NIL
                 ELSE IF i <= 2 * d + 1 THEN OP_EQUAL
                 ELSE <<OP_PRINT, OP_NIL, OP_RETURN>>[i - 2 * d - 1]],
     consts |-> <<>>]>>

\* interpret() of one of these programs
InitDeep ==
  \E d \in Depths : \E c \in {compile(initVM, Program_Deep(d))} :
    /\ vm = push(c.v, OBJ_VAL(c.ref))
    /\ heap = c.h
    /\ pc = "newClosure"
    /\ loc = [Loc0 EXCEPT !.op = INTERPRET, !.a = c.ref]
    /\ gcPhase = "idle"
    /\ collections = 0
    /\ current = <<>>
    /\ shadow = d
    /\ mem = Mem0
    /\ result = "none"
    /\ source = <<>>
    /\ scanner = initScanner
    /\ parser = Parser0
    /\ control = <<>>
    /\ output = <<>>

\* how many instructions from frame->ip on are op, up to the first that is not
RunLength(op) ==
  CHOOSE n \in {j \in 0..(Len(Chunk.code) - frame.ip - 1) : ByteAt(j) # op} :
    \A m \in {j \in 0..(Len(Chunk.code) - frame.ip - 1) : ByteAt(j) # op} :
      n <= m

\* n times `push(NIL_VAL)`, each after the ip has moved over its OP_NIL
PushNils(v, n) ==
  [Advance(v, n) EXCEPT
     !.stack = [i \in 1..(IF Len(@) > v.stackTop + n THEN Len(@)
                          ELSE v.stackTop + n) |->
                  IF i > v.stackTop /\ i <= v.stackTop + n THEN NIL_VAL
                  ELSE @[i]],
     !.stackTop = @ + n]

\* what vm.stackTop may hold once push() has stored a Value at
\* stack[STACK_MAX], the bytes of vm.stackTop itself, and incremented it
AfterOverflow == {0, STACK_MAX, STACK_MAX + 1}

\* run() over the OP_NIL instructions that follow one another at frame->ip:
\* one push each while the array has room; the push that finds
\* vm.stackTop = vm.stack + STACK_MAX writes outside the array, which is
\* undefined, and the instructions after it are not followed
OpNilRun ==
  /\ Fetch(OP_NIL)
  /\ \E room \in {STACK_MAX - vm.stackTop} : \E n \in {RunLength(OP_NIL)} :
       IF n <= room THEN Apply(Ok(PushNils(vm, n), heap))
       ELSE \E top \in AfterOverflow :
              Apply(At("undefined",
                       [PushNils(Advance(vm, 1), room) EXCEPT !.stackTop = top],
                       heap, Loc0))

NextDeep == NewClosureReturns \/ OpNilRun \/ OpEqual \/ OpPrint \/ OpReturn

\* the nested comparisons, run without a collection
SpecDeep == InitDeep /\ [][NextDeep]_vars

\* C33: push() never writes outside vm.stack and vm.stackTop stays within
\* vm.stack .. vm.stack + STACK_MAX: the stack never outgrows its capacity
C33_StackBound ==
  /\ pc # "undefined"
  /\ vm.stackTop \in 0..STACK_MAX

(***************************************************************************)
(* A session: one initVM(), then interpret() on each line in turn, as a    *)
(* driver in REPL mode makes them.  shadow holds the lines still to come.  *)
(* The lines are what compile() makes of the text quoted above each.       *)
(***************************************************************************)
\* var g; fun outer() { var x = "captured"; fun inner() { print x; x = "written"; } g = inner; nil(); } outer();
Line_Escape ==
  <<
  [name |-> <<>>, arity |-> 0, upvalueCount |-> 0,
   code |-> <<1, 19, 0, 14, 2, 19, 1, 21, 3, 11, 0, 4, 1, 16>>,
   consts |-> <<
         [k |-> "str", s |-> <<103>>, n |-> 0],
         [k |-> "str", s |-> <<111, 117, 116, 101, 114>>, n |-> 0],
         [k |-> "fn", s |-> <<>>, n |-> 2],
         [k |-> "str", s |-> <<111, 117, 116, 101, 114>>, n |-> 0]>>],
  [name |-> <<111, 117, 116, 101, 114>>, arity |-> 0, upvalueCount |-> 0,
   code |-> <<0, 0, 14, 1, 1, 1, 20, 2, 23, 2, 4, 1, 11, 0, 4, 1, 16>>,
   consts |-> <<
         [k |-> "str", s |-> <<99, 97, 112, 116, 117, 114, 101, 100>>, n |-> 0],
         [k |-> "fn", s |-> <<>>, n |-> 3],
         [k |-> "str", s |-> <<103>>, n |-> 0]>>],
  [name |-> <<105, 110, 110, 101, 114>>, arity |-> 0, upvalueCount |-> 1,
   code |-> <<24, 0, 7, 0, 0, 25, 0, 4, 1, 16>>,
   consts |-> <<
         [k |-> "str", s |-> <<119, 114, 105, 116, 116, 101, 110>>, n |-> 0]>>]
  >>
\* { var p = 1; var q = 2; var r = 3; g(); print q; }
Line_Reuse ==
  <<
  [name |-> <<>>, arity |-> 0, upvalueCount |-> 0,
   code |-> <<0, 0, 0, 1, 0, 2, 21, 3, 11, 0, 4, 20, 2, 7, 4, 4, 4, 1, 16>>,
   consts |-> <<
         [k |-> "num", s |-> <<>>, n |-> 1],
         [k |-> "num", s |-> <<>>, n |-> 2],
         [k |-> "num", s |-> <<>>, n |-> 3],
         [k |-> "str", s |-> <<103>>, n |-> 0]>>]
  >>
\* var g; fun outer() { var x = "captured"; fun inner() { print x; x = "written"; } g = inner; } outer();
Line_Return ==
  <<
  [name |-> <<>>, arity |-> 0, upvalueCount |-> 0,
   code |-> <<1, 19, 0, 14, 2, 19, 1, 21, 3, 11, 0, 4, 1, 16>>,
   consts |-> <<
         [k |-> "str", s |-> <<103>>, n |-> 0],
         [k |-> "str", s |-> <<111, 117, 116, 101, 114>>, n |-> 0],
         [k |-> "fn", s |-> <<>>, n |-> 2],
         [k |-> "str", s |-> <<111, 117, 116, 101, 114>>, n |-> 0]>>],
  [name |-> <<111, 117, 116, 101, 114>>, arity |-> 0, upvalueCount |-> 0,
   code |-> <<0, 0, 14, 1, 1, 1, 20, 2, 23, 2, 4, 1, 16>>,
   consts |-> <<
         [k |-> "str", s |-> <<99, 97, 112, 116, 117, 114, 101, 100>>, n |-> 0],
         [k |-> "fn", s |-> <<>>, n |-> 3],
         [k |-> "str", s |-> <<103>>, n |-> 0]>>],
  [name |-> <<105, 110, 110, 101, 114>>, arity |-> 0, upvalueCount |-> 1,
   code |-> <<24, 0, 7, 0, 0, 25, 0, 4, 1, 16>>,
   consts |-> <<
         [k |-> "str", s |-> <<119, 114, 105, 116, 116, 101, 110>>, n |-> 0]>>]
  >>
\* var g; { var x = "captured"; fun inner() { print x; x = "written"; } g = inner; }
Line_Block ==
  <<
  [name |-> <<>>, arity |-> 0, upvalueCount |-> 0,
   code |-> <<1, 19, 0, 0, 1, 14, 2, 1, 1, 20, 2, 23, 3, 4, 4, 15, 1, 16>>,
   consts |-> <<
         [k |-> "str", s |-> <<103>>, n |-> 0],
         [k |-> "str", s |-> <<99, 97, 112, 116, 117, 114, 101, 100>>, n |-> 0],
         [k |-> "fn", s |-> <<>>, n |-> 2],
         [k |-> "str", s |-> <<103>>, n |-> 0]>>],
  [name |-> <<105, 110, 110, 101, 114>>, arity |-> 0, upvalueCount |-> 1,
   code |-> <<24, 0, 7, 0, 0, 25, 0, 4, 1, 16>>,
   consts |-> <<
         [k |-> "str", s |-> <<119, 114, 105, 116, 116, 101, 110>>, n |-> 0]>>]
  >>
\* g(); g();
Line_Again ==
  <<
  [name |-> <<>>, arity |-> 0, upvalueCount |-> 0,
   code |-> <<21, 0, 11, 0, 4, 21, 1, 11, 0, 4, 1, 16>>,
   consts |-> <<
         [k |-> "str", s |-> <<103>>, n |-> 0],
         [k |-> "str", s |-> <<103>>, n |-> 0]>>]
  >>

Sessions ==
  {<<Line_Escape, Line_Reuse>>, <<Line_Return, Line_Again>>,
   <<Line_Block, Line_Again>>, <<Line_Return, Line_Reuse>>}

InitSession ==
  \E lines \in Sessions : \E c \in {compile(initVM, lines[1])} :
    /\ vm = push(c.v, OBJ_VAL(c.ref))
    /\ heap = c.h
    /\ pc = "newClosure"
    /\ loc = [Loc0 EXCEPT !.op = INTERPRET, !.a = c.ref]
    /\ gcPhase = "idle"
    /\ collections = 0
    /\ current = <<>>
    /\ shadow = Tail(lines)
    /\ mem = Mem0
    /\ result = "none"
    /\ source = <<>>
    /\ scanner = initScanner
    /\ parser = Parser0
    /\ control = <<>>
    /\ output = <<>>

\* interpret() of the next line once the last call has returned: the machine
\* is the one that call left
InterpretNext ==
  /\ pc = "done"
  /\ shadow # <<>>
  /\ \E c \in {compile([v |-> vm, h |-> heap], Head(shadow))} :
       /\ vm' = push(c.v, OBJ_VAL(c.ref))
       /\ heap' = c.h
       /\ loc' = [Loc0 EXCEPT !.op = INTERPRET, !.a = c.ref]
  /\ pc' = "newClosure"
  /\ result' = "none"
  /\ shadow' = Tail(shadow)
  /\ UNCHANGED <<gcPhase, collections, current, mem>>
  /\ UNCHANGED front

NextSession ==
  \/ OpConstant \/ OpNil \/ OpPop \/ OpGetLocal \/ OpGetGlobal
  \/ OpDefineGlobal \/ OpSetGlobal \/ OpGetUpvalue \/ OpSetUpvalue
  \/ OpPrint \/ OpCall \/ OpClosure \/ OpCloseUpvalue \/ OpReturn
  \/ NewClosureReturns \/ NewUpvalueReturns \/ InterpretNext

\* the sessions, run without a collection
SpecSession == InitSession /\ [][NextSession]_vars

\* the upvalues that the closures hold and that are not closed
HeldOpen ==
  {u \in UNION {OpenOf(heap, c) : c \in {o \in DOMAIN heap :
                  heap[o].type = "OBJ_CLOSURE" /\ ~heap[o].freed}} :
     heap[u].location # CLOSED}

\* C34: an upvalue that a closure holds is closed or points to a slot below
\* vm.stackTop, whatever has discarded slots before: a return, the end of a
\* scope, or the resetStack() of a runtime error
C34_NoDanglingUpvalue ==
  \A u \in HeldOpen : heap[u].location < vm.stackTop

(***************************************************************************)
(* The blocks behind vm.bytesAllocated.  Every block is obtained and       *)
(* released through reallocate(); shadow lists the objects that are        *)
(* allocated, each with the size of its struct and of the array it owns,   *)
(* and the capacity of a table's entries.  The sizes are those of a        *)
(* 64-bit build.                                                           *)
(***************************************************************************)
\* sizeof(type) for the operands that ALLOCATE, ALLOCATE_OBJ, FREE and
\* FREE_ARRAY are given; OBJ_FUNCTION is an enumerator, so an int
Sizeof(type) ==
  CASE type = "char" -> 1
    [] type = "OBJ_FUNCTION" -> 4
    [] type = "ObjUpvalue*" -> 8
    [] type \in {"Entry", "ObjNative"} -> 24
    [] type \in {"ObjString", "ObjClosure", "ObjClass", "ObjInstance",
                 "ObjBoundMethod"} -> 40
    [] type = "ObjUpvalue" -> 48
    [] type = "ObjFunction" -> 72

\* the struct of each variant of object
StructOf(type) ==
  CASE type = "OBJ_STRING" -> "ObjString"
    [] type = "OBJ_FUNCTION" -> "ObjFunction"
    [] type = "OBJ_CLOSURE" -> "ObjClosure"
    [] type = "OBJ_UPVALUE" -> "ObjUpvalue"
    [] type = "OBJ_NATIVE" -> "ObjNative"
    [] type = "OBJ_CLASS" -> "ObjClass"
    [] type = "OBJ_INSTANCE" -> "ObjInstance"
    [] type = "OBJ_BOUND_METHOD" -> "ObjBoundMethod"

ObjTypes ==
  {"OBJ_STRING", "OBJ_FUNCTION", "OBJ_CLOSURE", "OBJ_UPVALUE", "OBJ_NATIVE",
   "OBJ_CLASS", "OBJ_INSTANCE", "OBJ_BOUND_METHOD"}

\* the longest string and the most upvalues of a closure
MaxCount == 2
\* calls that allocate, in one execution
MaxAllocations == 4

\* ALLOCATE(type, count), ALLOCATE_OBJ(type, objectType)
AllocateRequest(type, count) ==
  [oldSize |-> 0, newSize |-> Sizeof(type) * count]

\* FREE_ARRAY(type, pointer, oldCount), FREE(type, pointer)
FreeArrayRequest(type, oldCount) == FreeRequest(Sizeof(type) * oldCount)

\* the element type and length of the array an object of this type owns
ArrayOf(type) ==
  CASE type = "OBJ_STRING" -> "char"
    [] type = "OBJ_CLOSURE" -> "ObjUpvalue*"
    [] OTHER -> "none"

\* two calls of reallocate(), neither of which collects
Twice(m, first, second) ==
  reallocate(reallocate(m, first, "idle"), second, "idle")

Account0 == [objects |-> <<>>, capacity |-> 0, allocations |-> 0]

InitAccount ==
  /\ mem = Mem0
  /\ shadow = Account0
  /\ vm = initVM_fields
  /\ heap = <<>>
  /\ pc = "account"
  /\ loc = Loc0
  /\ gcPhase = "idle"
  /\ collections = 0
  /\ current = <<>>
  /\ result = "none"
  /\ source = <<>>
  /\ scanner = initScanner
  /\ parser = Parser0
  /\ control = <<>>
  /\ output = <<>>

CanAllocate == pc = "account" /\ shadow.allocations < MaxAllocations

\* copyString() of a string not interned, newClosure(), and the other
\* constructors: the owned array first (copyString's heapChars, newClosure's
\* upvalues), then ALLOCATE_OBJ
NewObject ==
  /\ CanAllocate
  /\ \E type \in ObjTypes :
       \E count \in (IF ArrayOf(type) = "none" THEN {0} ELSE 0..MaxCount) :
         \E array \in {IF type = "OBJ_STRING" THEN count + 1 ELSE count} :
           /\ mem' = (IF ArrayOf(type) = "none"
                      THEN reallocate(mem, AllocateRequest(StructOf(type), 1), "idle")
                      ELSE Twice(mem, AllocateRequest(ArrayOf(type), array),
                                 AllocateRequest(StructOf(type), 1)))
           /\ shadow' = [shadow EXCEPT
                           !.objects = Append(@, [type |-> type, count |-> count,
                                                  array |-> array]),
                           !.allocations = @ + 1]

\* concatenate() and takeString(): the characters are allocated, then given
\* up when the string is interned already, or handed to allocateString()
TakeString ==
  /\ CanAllocate
  /\ \E length \in 0..MaxCount : \E interned \in BOOLEAN :
       /\ mem' = Twice(mem, AllocateRequest("char", length + 1),
                       IF interned THEN FreeArrayRequest("char", length + 1)
                       ELSE AllocateRequest("ObjString", 1))
       /\ shadow' = [shadow EXCEPT
                       !.objects = IF interned THEN @
                                   ELSE Append(@, [type |-> "OBJ_STRING",
                                                   count |-> length,
                                                   array |-> length + 1]),
                       !.allocations = @ + 1]

\* adjustCapacity(): the new entries, then FREE_ARRAY of the old ones
AdjustCapacity ==
  /\ CanAllocate
  /\ mem' = Twice(mem, AllocateRequest("Entry", GROW_CAPACITY(shadow.capacity)),
                  FreeArrayRequest("Entry", shadow.capacity))
  /\ shadow' = [shadow EXCEPT !.capacity = GROW_CAPACITY(@),
                              !.allocations = @ + 1]

\* freeTable()
FreeTable ==
  /\ pc = "account"
  /\ shadow.capacity > 0
  /\ mem' = reallocate(mem, FreeArrayRequest("Entry", shadow.capacity), "idle")
  /\ shadow' = [shadow EXCEPT !.capacity = 0]

\* the requests that freeObject() makes for an object, case by case
FreeRequests(object) ==
  CASE object.type = "OBJ_CLOSURE" ->
         <<FreeArrayRequest("ObjUpvalue*", object.count),
           FreeArrayRequest("ObjClosure", 1)>>
    [] object.type = "OBJ_STRING" ->
         <<FreeArrayRequest("char", object.count + 1),
           FreeArrayRequest("ObjString", 1)>>
    [] object.type = "OBJ_FUNCTION" -> <<FreeArrayRequest("OBJ_FUNCTION", 1)>>
    [] object.type = "OBJ_NATIVE" -> <<FreeArrayRequest("ObjNative", 1)>>
    [] object.type = "OBJ_UPVALUE" -> <<FreeArrayRequest("ObjUpvalue", 1)>>
    [] OTHER -> <<>>

\* freeObject() on one of the objects, from sweep() or from freeObjects():
\* the variants with a case are released, the others stay allocated
FreeObject ==
  /\ pc = "account"
  /\ \E i \in DOMAIN shadow.objects :
       \E requests \in {FreeRequests(shadow.objects[i])} :
         /\ requests # <<>>
         /\ mem' = (IF Len(requests) = 2 THEN Twice(mem, requests[1], requests[2])
                    ELSE reallocate(mem, requests[1], "idle"))
         /\ shadow' = [shadow EXCEPT
                         !.objects = SubSeq(@, 1, i - 1) \o SubSeq(@, i + 1, Len(@))]

NextAccount ==
  /\ NewObject \/ TakeString \/ AdjustCapacity \/ FreeTable \/ FreeObject
  /\ UNCHANGED <<vm, heap, pc, loc, gcPhase, collections, current, result>>
  /\ UNCHANGED front

SpecAccount == InitAccount /\ [][NextAccount]_vars

RECURSIVE HeldFrom(_, _)
\* the bytes of the objects from the i-th on
HeldFrom(objects, i) ==
  IF i > Len(objects) THEN 0
  ELSE Sizeof(StructOf(objects[i].type))
       + (IF ArrayOf(objects[i].type) = "none" THEN 0
          ELSE Sizeof(ArrayOf(objects[i].type)) * objects[i].array)
       + HeldFrom(objects, i + 1)

\* the bytes of the blocks that are allocated
Held == HeldFrom(shadow.objects, 1) + Sizeof("Entry") * shadow.capacity

\* C35: vm.bytesAllocated is the sum of the sizes of the blocks that are
\* allocated through reallocate()
C35_ExactAccounting == pc = "account" => mem.bytesAllocated = Held

(***************************************************************************)
(* The two counting loops of compiler.c: the parameters that function()    *)
(* reads and the arguments that argumentList() reads, for the source       *)
(*     fun f ( p1 , ... , pn ) { }  f ( nil , ... , nil ) ;                *)
(* with n parameters of different names and n arguments.  shadow holds n,  *)
(* the loop control is in, how many iterations it has made, the            *)
(* function's arity and the uint8_t argCount.  Between the declaration and *)
(* the call declaration() has synchronized, so panicMode is false again.   *)
(***************************************************************************)
\* the most parameters a source of SpecArity declares
MaxParameters == 257

Arity0 == [n |-> 0, at |-> "parameters", read |-> 0, arity |-> 0, argCount |-> 0]

InitArity ==
  /\ \E n \in 0..MaxParameters : shadow = [Arity0 EXCEPT !.n = n]
  /\ parser = [Parser0 EXCEPT !.current.type = "TOKEN_IDENTIFIER",
                              !.current.line = 1]
  /\ output = <<>>
  /\ pc = "compile"
  /\ vm = initVM_fields
  /\ heap = <<>>
  /\ loc = Loc0
  /\ gcPhase = "idle"
  /\ collections = 0
  /\ current = <<>>
  /\ mem = Mem0
  /\ result = "none"
  /\ source = <<>>
  /\ scanner = initScanner
  /\ control = <<>>

\* the parser and the messages as the error functions take them
Reporting == [p |-> parser, out |-> output]

StepArity(S, next) ==
  /\ parser' = S.p
  /\ output' = S.out
  /\ shadow' = next
  /\ UNCHANGED <<vm, heap, pc, loc, gcPhase, collections, current, mem, result,
                 source, scanner, control>>

\* function(): one turn of the loop over the parameters, entered when the
\* token after '(' is not ')' and again after each ','; the parameter's
\* name becomes the previous token
Parameter ==
  /\ shadow.at = "parameters"
  /\ shadow.read < shadow.n
  /\ \E arity \in {shadow.arity + 1} :
       StepArity(
         [IF arity > 255
          THEN errorAtCurrent(Reporting, "Can't have more than 255 parameters.")
          ELSE Reporting
            EXCEPT !.p.previous = parser.current],
         [shadow EXCEPT !.arity = arity, !.read = @ + 1])

\* function() from ')' to its end, funDeclaration()'s defineVariable(), the
\* synchronize() of declaration() after an error, and the call's callee f up
\* to the '(' that makes call() enter argumentList()
EndParameters ==
  /\ shadow.at = "parameters"
  /\ shadow.read = shadow.n
  /\ StepArity([Reporting EXCEPT !.p.panicMode = FALSE,
                                 !.p.current.type = "TOKEN_NIL"],
               [shadow EXCEPT !.at = "arguments", !.read = 0])

\* argumentList(): one turn of the loop over the arguments, entered when the
\* token after '(' is not ')' and again after each ','; expression() has
\* left the argument's `nil` as the previous token
Argument ==
  /\ shadow.at = "arguments"
  /\ shadow.read < shadow.n
  /\ \E argCount \in {(shadow.argCount + 1) % 256} :
       \E S \in {[Reporting EXCEPT !.p.previous = parser.current]} :
         StepArity(
           IF argCount = 255
           THEN error(S, "Can't have more than 255 arguments.")
           ELSE S,
           [shadow EXCEPT !.argCount = argCount, !.read = @ + 1])

\* argumentList() returns argCount to call()
EndArguments ==
  /\ shadow.at = "arguments"
  /\ shadow.read = shadow.n
  /\ StepArity(Reporting, [shadow EXCEPT !.at = "done"])

NextArity == Parameter \/ EndParameters \/ Argument \/ EndArguments

SpecArity == InitArity /\ [][NextArity]_vars

Reported(message) == \E i \in DOMAIN output : output[i].message = message

\* C36: a number of parameters that function() accepts is a number of
\* arguments that argumentList() accepts: when the declaration has drawn no
\* message about its parameters, the call with as many arguments draws none
\* about its arguments
C36_LimitsAgree ==
  (shadow.at = "done" /\ ~Reported("Can't have more than 255 parameters."))
    => ~Reported("Can't have more than 255 arguments.")

(***************************************************************************)
(* The chains `current` and `currentClass` over the calls of compile(),    *)
(* function() and classDeclaration(), whatever the source nests: a frame   *)
(* of control is one of these calls with the two pointers as they were     *)
(* when it was entered.  None of the three functions has a return before   *)
(* its last statement, and an error only sets the parser's flags, so the   *)
(* calls nest and end as the declarations of the source do.  shadow holds  *)
(* currentClass (the ClassCompilers, the innermost first) and how many     *)
(* Compilers and ClassCompilers have been set up.                          *)
(***************************************************************************)
\* the Compilers and the ClassCompilers of one compile()
MaxCompilers == 4
MaxClasses == 2

Chain0 == [currentClass |-> <<>>, compilers |-> 0, classes |-> 0]

ChainFrame(fn) ==
  [fn |-> fn, enclosing |-> current, enclosingClass |-> shadow.currentClass]

InitChain ==
  /\ control = <<>>
  /\ current = <<>>
  /\ shadow = Chain0
  /\ parser = Parser0
  /\ pc = "chain"
  /\ result = "none"
  /\ output = <<>>
  /\ vm = initVM_fields
  /\ heap = <<>>
  /\ loc = Loc0
  /\ gcPhase = "idle"
  /\ collections = 0
  /\ mem = Mem0
  /\ source = <<>>
  /\ scanner = initScanner

Chained == <<vm, heap, loc, gcPhase, collections, mem, source, scanner, output>>

\* compile() up to its loop
ScriptEnters ==
  /\ pc = "chain"
  /\ control = <<>>
  /\ control' = <<ChainFrame("compile")>>
  /\ current' = PushCompiler(current, shadow.compilers + 1)
  /\ shadow' = [shadow EXCEPT !.compilers = @ + 1]
  /\ parser' = [parser EXCEPT !.hadError = FALSE, !.panicMode = FALSE]
  /\ UNCHANGED <<pc, result>>
  /\ UNCHANGED Chained

\* function() up to its block(), called by funDeclaration() from a
\* declaration of the script or of a function's body, or by method() from
\* the loop of classDeclaration()
FunctionEnters ==
  /\ pc = "chain"
  /\ control # <<>>
  /\ shadow.compilers < MaxCompilers
  /\ control' = Append(control, ChainFrame("function"))
  /\ current' = PushCompiler(current, shadow.compilers + 1)
  /\ shadow' = [shadow EXCEPT !.compilers = @ + 1]
  /\ UNCHANGED <<pc, result, parser>>
  /\ UNCHANGED Chained

\* function() from its endCompiler() on
FunctionReturns ==
  /\ pc = "chain"
  /\ control # <<>>
  /\ Top.fn = "function"
  /\ control' = Return
  /\ current' = PopCompiler(current)
  /\ UNCHANGED <<pc, result, parser, shadow>>
  /\ UNCHANGED Chained

\* classDeclaration() up to its loop over the methods
ClassEnters ==
  /\ pc = "chain"
  /\ control # <<>>
  /\ Top.fn \in {"compile", "function"}
  /\ shadow.classes < MaxClasses
  /\ control' = Append(control, ChainFrame("classDeclaration"))
  /\ shadow' = [shadow EXCEPT !.currentClass = <<shadow.classes + 1>> \o @,
                              !.classes = @ + 1]
  /\ UNCHANGED <<pc, result, parser, current>>
  /\ UNCHANGED Chained

\* classDeclaration() from the '}' on: `currentClass = currentClass->enclosing`
ClassReturns ==
  /\ pc = "chain"
  /\ control # <<>>
  /\ Top.fn = "classDeclaration"
  /\ control' = Return
  /\ shadow' = [shadow EXCEPT !.currentClass = Tail(@)]
  /\ UNCHANGED <<pc, result, parser, current>>
  /\ UNCHANGED Chained

\* errorAt(), wherever a token is not the one expected
ReportError ==
  /\ pc = "chain"
  /\ control # <<>>
  /\ ~parser.panicMode
  /\ parser' = [parser EXCEPT !.hadError = TRUE, !.panicMode = TRUE]
  /\ UNCHANGED <<pc, result, control, current, shadow>>
  /\ UNCHANGED Chained

\* compile() from its endCompiler() on, and interpret() with what it returns
ScriptReturns ==
  /\ pc = "chain"
  /\ control # <<>>
  /\ Top.fn = "compile"
  /\ control' = Return
  /\ current' = PopCompiler(current)
  /\ pc' = "interpret"
  /\ result' = (IF parser.hadError THEN "INTERPRET_COMPILE_ERROR" ELSE "none")
  /\ UNCHANGED <<parser, shadow>>
  /\ UNCHANGED Chained

NextChain ==
  \/ ScriptEnters \/ FunctionEnters \/ FunctionReturns \/ ClassEnters
  \/ ClassReturns \/ ReportError \/ ScriptReturns

SpecChain == InitChain /\ [][NextChain]_vars

\* C37: when function(), classDeclaration() or compile() returns, `current`
\* and `currentClass` are what they were when it was entered; so once
\* compile() has returned, with or without errors, `current` is NULL and
\* `currentClass` is NULL as before the call, and markCompilerRoots() has
\* no compiler to follow
C37_ChainRestored ==
  /\ [][(control # <<>> /\ Len(control') < Len(control)) =>
          /\ current' = Top.enclosing
          /\ shadow'.currentClass = Top.enclosingClass]_vars
  /\ [](pc = "interpret" => current = <<>> /\ shadow.currentClass = <<>>)

\* compile() has returned NULL after four compilers, one of them for a
\* method of a class
C37_Witness ==
  /\ pc = "interpret"
  /\ result = "INTERPRET_COMPILE_ERROR"
  /\ shadow.compilers = MaxCompilers
  /\ shadow.classes >= 1

(***************************************************************************)
(* The mark bytes when a collection starts.  allocateObject() writes the   *)
(* type and the link of the new object and nothing else, so the mark byte  *)
(* of an object that no collection has visited is indeterminate            *)
(* (markKnown is false) and markObject() may read it as set.               *)
(***************************************************************************)
\* how often object stands on the gray stack
TimesGray(object) ==
  Cardinality({i \in DOMAIN vm.grayStack : vm.grayStack[i] = object})

\* C38: every object on the object list has its mark bit clear when a
\* collection starts, the objects allocated since the last one included; so
\* when markRoots() has returned every root is marked and stands on the gray
\* stack exactly once
C38_RootsGrayOnce ==
  gcPhase = "markRoots" =>
    \A o \in Roots(vm, current) : heap[o].isMarked /\ TimesGray(o) = 1

(***************************************************************************)
(* The load of a table: the globals table of SpecTable under tableSet,     *)
(* tableDelete, tableAddAll from a table of two keys, and                  *)
(* tableRemoveWhite with any of the keys unmarked.  The values play no     *)
(* part, so every key is set to nil, as allocateString() sets the keys of  *)
(* vm.strings.                                                             *)
(***************************************************************************)
\* the loop of tableAddAll over the buckets i.. of `from`
RECURSIVE AddAllBuckets(_, _, _, _)
AddAllBuckets(h, from, to, i) ==
  IF i > from.capacity THEN to
  ELSE IF from.entries[i].key # NULL
       THEN AddAllBuckets(h, from,
                          tableSet(h, to, from.entries[i].key,
                                   from.entries[i].value).table,
                          i + 1)
       ELSE AddAllBuckets(h, from, to, i + 1)

tableAddAll(h, from, to) == AddAllBuckets(h, from, to, 1)

\* the heap with exactly the keys in white unmarked
Marked(h, white) ==
  [o \in DOMAIN h |-> [h[o] EXCEPT !.isMarked = (o \notin white)]]

LoadStep(table, map) ==
  /\ pc = "table"
  /\ vm' = [vm EXCEPT !.globals = table]
  /\ shadow' = map
  /\ UNCHANGED <<heap, pc, loc, gcPhase, collections, current, mem, result>>
  /\ UNCHANGED front

\* tableSet(table, key, NIL_VAL)
LoadSet ==
  \E key \in Keys :
    LoadStep(tableSet(heap, vm.globals, key, NIL_VAL).table,
             MapSet(shadow, key, NIL_VAL))

\* tableDelete(table, key)
LoadDelete ==
  \E key \in Keys :
    LoadStep(tableDelete(heap, vm.globals, key), MapDelete(shadow, key))

\* tableAddAll(from, table), `from` a table of the keys a and b
LoadAddAll ==
  \E a \in Keys : \E b \in Keys :
    \E from \in {tableSet(heap, tableSet(heap, initTable, a, NIL_VAL).table,
                          b, NIL_VAL).table} :
      LoadStep(tableAddAll(heap, from, vm.globals),
               MapSet(MapSet(shadow, a, NIL_VAL), b, NIL_VAL))

\* tableRemoveWhite(table) with the keys in white unmarked
LoadRemoveWhite ==
  \E white \in SUBSET Keys :
    LoadStep(tableRemoveWhite(Marked(heap, white), vm.globals),
             [k \in DOMAIN shadow \ white |-> shadow[k]])

NextLoad == LoadSet \/ LoadDelete \/ LoadAddAll \/ LoadRemoveWhite

SpecLoad == InitTable /\ [][NextLoad]_vars

\* the buckets of a table that hold this entry, or any key
BucketsWith(table, entry) ==
  {i \in 1..table.capacity : table.entries[i] = entry}
BucketsInUse(table) ==
  {i \in 1..table.capacity : table.entries[i].key # NULL}

\* C39: a table with buckets counts in table.count its keys and its
\* tombstones, the count is at most three quarters of the capacity, a bucket
\* with key NULL and value nil is left, and the probe loops of findEntry()
\* and tableFindString() come to an end for every key, in the table or not
C39_LoadBound ==
  (pc = "table" /\ vm.globals.capacity > 0) =>
    /\ vm.globals.count = Cardinality(BucketsInUse(vm.globals))
                          + Cardinality(BucketsWith(vm.globals, Tombstone))
    /\ 4 * vm.globals.count <= 3 * vm.globals.capacity
    /\ BucketsWith(vm.globals, EmptyEntry) # {}
    /\ \A k \in Keys :
         /\ findEntry(heap, vm.globals.entries, vm.globals.capacity, k)
              \in 1..vm.globals.capacity
         /\ tableFindString(heap, vm.globals, heap[k].chars, heap[k].hash)
              = (IF k \in DOMAIN shadow THEN k ELSE NULL)

\* sixteen buckets with tombstones among them, and fewer keys than count
C39_Witness ==
  /\ pc = "table"
  /\ vm.globals.capacity = 16
  /\ Cardinality(BucketsWith(vm.globals, Tombstone)) >= 2
  /\ Cardinality(BucketsInUse(vm.globals)) >= 2

(***************************************************************************)
(* One captured local behind two closures.  Every session declares the     *)
(* globals inc, get, n, r and s, makes a local x with the closures i (adds *)
(* one to x and returns it) and g (returns x), writes x itself, calls both *)
(* closures while x is on the stack and keeps them in inc and get; the     *)
(* lines after it call them again.  n counts what x has to be.             *)
(***************************************************************************)
\* var inc; var get; var n = 11; var r; var s; fun f() { var x = 0; fun i() { x = x + 1; return x; } fun g() { return x; } x = 10; r = i(); s = g(); inc = i; get = g; } f();
Line_Make ==
  <<
  [name |-> <<>>, arity |-> 0, upvalueCount |-> 0,
   code |-> <<1, 19, 0, 1, 19, 1, 0, 3, 19, 2, 1, 19, 4, 1, 19, 5, 14, 7, 19, 6, 21, 8, 11, 0, 4, 1, 16>>,
   consts |-> <<
         [k |-> "str", s |-> <<105, 110, 99>>, n |-> 0],
         [k |-> "str", s |-> <<103, 101, 116>>, n |-> 0],
         [k |-> "str", s |-> <<110>>, n |-> 0],
         [k |-> "num", s |-> <<>>, n |-> 11],
         [k |-> "str", s |-> <<114>>, n |-> 0],
         [k |-> "str", s |-> <<115>>, n |-> 0],
         [k |-> "str", s |-> <<102>>, n |-> 0],
         [k |-> "fn", s |-> <<>>, n |-> 2],
         [k |-> "str", s |-> <<102>>, n |-> 0]>>],
  [name |-> <<102>>, arity |-> 0, upvalueCount |-> 0,
   code |-> <<0, 0, 14, 1, 1, 1, 14, 2, 1, 1, 0, 3, 22, 1, 4, 20, 2, 11, 0, 23, 4, 4, 20, 3, 11, 0, 23, 5, 4, 20, 2, 23, 6, 4, 20, 3, 23, 7, 4, 1, 16>>,
   consts |-> <<
         [k |-> "num", s |-> <<>>, n |-> 0],
         [k |-> "fn", s |-> <<>>, n |-> 3],
         [k |-> "fn", s |-> <<>>, n |-> 4],
         [k |-> "num", s |-> <<>>, n |-> 10],
         [k |-> "str", s |-> <<114>>, n |-> 0],
         [k |-> "str", s |-> <<115>>, n |-> 0],
         [k |-> "str", s |-> <<105, 110, 99>>, n |-> 0],
         [k |-> "str", s |-> <<103, 101, 116>>, n |-> 0]>>],
  [name |-> <<105>>, arity |-> 0, upvalueCount |-> 1,
   code |-> <<24, 0, 0, 0, 30, 25, 0, 4, 24, 0, 16, 1, 16>>,
   consts |-> <<
         [k |-> "num", s |-> <<>>, n |-> 1]>>],
  [name |-> <<103>>, arity |-> 0, upvalueCount |-> 1,
   code |-> <<24, 0, 16, 1, 16>>,
   consts |-> <<>>]
  >>

\* var inc; var get; var n = 11; var r; var s; { var x = 0; fun i() { x = x + 1; return x; } fun g() { return x; } x = 10; r = i(); s = g(); inc = i; get = g; }
Line_Scope ==
  <<
  [name |-> <<>>, arity |-> 0, upvalueCount |-> 0,
   code |-> <<1, 19, 0, 1, 19, 1, 0, 3, 19, 2, 1, 19, 4, 1, 19, 5, 0, 6, 14, 7, 1, 1, 14, 8, 1, 1, 0, 9, 22, 1, 4, 20, 2, 11, 0, 23, 10, 4, 20, 3, 11, 0, 23, 11, 4, 20, 2, 23, 12, 4, 20, 3, 23, 13, 4, 4, 4, 15, 1, 16>>,
   consts |-> <<
         [k |-> "str", s |-> <<105, 110, 99>>, n |-> 0],
         [k |-> "str", s |-> <<103, 101, 116>>, n |-> 0],
         [k |-> "str", s |-> <<110>>, n |-> 0],
         [k |-> "num", s |-> <<>>, n |-> 11],
         [k |-> "str", s |-> <<114>>, n |-> 0],
         [k |-> "str", s |-> <<115>>, n |-> 0],
         [k |-> "num", s |-> <<>>, n |-> 0],
         [k |-> "fn", s |-> <<>>, n |-> 2],
         [k |-> "fn", s |-> <<>>, n |-> 3],
         [k |-> "num", s |-> <<>>, n |-> 10],
         [k |-> "str", s |-> <<114>>, n |-> 0],
         [k |-> "str", s |-> <<115>>, n |-> 0],
         [k |-> "str", s |-> <<105, 110, 99>>, n |-> 0],
         [k |-> "str", s |-> <<103, 101, 116>>, n |-> 0]>>],
  [name |-> <<105>>, arity |-> 0, upvalueCount |-> 1,
   code |-> <<24, 0, 0, 0, 30, 25, 0, 4, 24, 0, 16, 1, 16>>,
   consts |-> <<
         [k |-> "num", s |-> <<>>, n |-> 1]>>],
  [name |-> <<103>>, arity |-> 0, upvalueCount |-> 1,
   code |-> <<24, 0, 16, 1, 16>>,
   consts |-> <<>>]
  >>

\* var inc; var get; var n = 11; var r; var s; fun f() { var x = 0; fun i() { x = x + 1; return x; } fun g() { return x; } x = 10; r = i(); s = g(); inc = i; get = g; nil(); } f();
Line_Fail ==
  <<
  [name |-> <<>>, arity |-> 0, upvalueCount |-> 0,
   code |-> <<1, 19, 0, 1, 19, 1, 0, 3, 19, 2, 1, 19, 4, 1, 19, 5, 14, 7, 19, 6, 21, 8, 11, 0, 4, 1, 16>>,
   consts |-> <<
         [k |-> "str", s |-> <<105, 110, 99>>, n |-> 0],
         [k |-> "str", s |-> <<103, 101, 116>>, n |-> 0],
         [k |-> "str", s |-> <<110>>, n |-> 0],
         [k |-> "num", s |-> <<>>, n |-> 11],
         [k |-> "str", s |-> <<114>>, n |-> 0],
         [k |-> "str", s |-> <<115>>, n |-> 0],
         [k |-> "str", s |-> <<102>>, n |-> 0],
         [k |-> "fn", s |-> <<>>, n |-> 2],
         [k |-> "str", s |-> <<102>>, n |-> 0]>>],
  [name |-> <<102>>, arity |-> 0, upvalueCount |-> 0,
   code |-> <<0, 0, 14, 1, 1, 1, 14, 2, 1, 1, 0, 3, 22, 1, 4, 20, 2, 11, 0, 23, 4, 4, 20, 3, 11, 0, 23, 5, 4, 20, 2, 23, 6, 4, 20, 3, 23, 7, 4, 1, 11, 0, 4, 1, 16>>,
   consts |-> <<
         [k |-> "num", s |-> <<>>, n |-> 0],
         [k |-> "fn", s |-> <<>>, n |-> 3],
         [k |-> "fn", s |-> <<>>, n |-> 4],
         [k |-> "num", s |-> <<>>, n |-> 10],
         [k |-> "str", s |-> <<114>>, n |-> 0],
         [k |-> "str", s |-> <<115>>, n |-> 0],
         [k |-> "str", s |-> <<105, 110, 99>>, n |-> 0],
         [k |-> "str", s |-> <<103, 101, 116>>, n |-> 0]>>],
  [name |-> <<105>>, arity |-> 0, upvalueCount |-> 1,
   code |-> <<24, 0, 0, 0, 30, 25, 0, 4, 24, 0, 16, 1, 16>>,
   consts |-> <<
         [k |-> "num", s |-> <<>>, n |-> 1]>>],
  [name |-> <<103>>, arity |-> 0, upvalueCount |-> 1,
   code |-> <<24, 0, 16, 1, 16>>,
   consts |-> <<>>]
  >>

\* n = n + 1; r = inc(); s = get();
Line_Bump ==
  <<
  [name |-> <<>>, arity |-> 0, upvalueCount |-> 0,
   code |-> <<21, 1, 0, 2, 30, 23, 0, 4, 21, 4, 11, 0, 23, 3, 4, 21, 6, 11, 0, 23, 5, 4, 1, 16>>,
   consts |-> <<
         [k |-> "str", s |-> <<110>>, n |-> 0],
         [k |-> "str", s |-> <<110>>, n |-> 0],
         [k |-> "num", s |-> <<>>, n |-> 1],
         [k |-> "str", s |-> <<114>>, n |-> 0],
         [k |-> "str", s |-> <<105, 110, 99>>, n |-> 0],
         [k |-> "str", s |-> <<115>>, n |-> 0],
         [k |-> "str", s |-> <<103, 101, 116>>, n |-> 0]>>]
  >>

SharedSessions ==
  {<<Line_Make, Line_Bump, Line_Bump>>, <<Line_Scope, Line_Bump, Line_Bump>>,
   <<Line_Fail, Line_Bump>>}

InitShared ==
  \E lines \in SharedSessions : \E c \in {compile(initVM, lines[1])} :
    /\ vm = push(c.v, OBJ_VAL(c.ref))
    /\ heap = c.h
    /\ pc = "newClosure"
    /\ loc = [Loc0 EXCEPT !.op = INTERPRET, !.a = c.ref]
    /\ gcPhase = "idle"
    /\ collections = 0
    /\ current = <<>>
    /\ shadow = Tail(lines)
    /\ mem = Mem0
    /\ result = "none"
    /\ source = <<>>
    /\ scanner = initScanner
    /\ parser = Parser0
    /\ control = <<>>
    /\ output = <<>>

NextShared ==
  \/ OpConstant \/ OpNil \/ OpPop \/ OpGetLocal \/ OpSetLocal \/ OpGetGlobal
  \/ OpDefineGlobal \/ OpSetGlobal \/ OpGetUpvalue \/ OpSetUpvalue \/ OpAdd
  \/ OpCall \/ OpClosure \/ OpCloseUpvalue \/ OpReturn
  \/ NewClosureReturns \/ NewUpvalueReturns \/ AdjustCapacityReturns
  \/ InterpretNext

\* the sessions, run without a collection
SpecShared == InitShared /\ [][NextShared]_vars

\* *upvalue->location: the slot of an open upvalue, its own field once closed
Cell(v, h, upvalue) ==
  IF h[upvalue].location = CLOSED THEN h[upvalue].closed
  ELSE v.stack[h[upvalue].location + 1]

\* the upvalue of x that the closure in the global `chars` holds
UpvalueOf(chars) == heap[AS_OBJ(Global(chars))].upvalues[1]

\* C40: the closures i and g hold one upvalue for x, and once a line has
\* run to its end the value of that upvalue, the value that the last call
\* of i has returned (r) and the value that the last call of g has returned
\* (s) are all the number of writes to x so far (n): the write to the local
\* and every write through i are read through i and through g, before and
\* after x has left the stack.
C40_SharedCell ==
  (pc = "done" /\ result = "INTERPRET_OK") =>
    /\ UpvalueOf(<<105, 110, 99>>) = UpvalueOf(<<103, 101, 116>>)
    /\ Cell(vm, heap, UpvalueOf(<<105, 110, 99>>)) = Global(<<110>>)
    /\ Global(<<114>>) = Global(<<110>>)
    /\ Global(<<115>>) = Global(<<110>>)

\* the last line of a session without a runtime error has run: x is closed
\* and has been written three times through i
C40_AfterClose ==
  /\ pc = "done"
  /\ result = "INTERPRET_OK"
  /\ shadow = <<>>
  /\ heap[UpvalueOf(<<105, 110, 99>>)].location = CLOSED
  /\ Global(<<114>>) = NUMBER_VAL(13)

====
